---- MODULE Spec2Model ----
(***************************************************************************)
(* A model of the synthesis-and-aggregation pipeline of                    *)
(* arima-ercot-2021-opendss: the measurement aggregator (data_factory.py), *)
(* the loadshape constructor (dss_loadshape.py), the loadshape factory and *)
(* its prototype (loadshape_factory.py, loadshape_prototype.py) and the    *)
(* session loop (run.py).                                                  *)
(*                                                                         *)
(* Strings are sequences of tokens (<<"load", ".", "a">> is "load.a"), so  *)
(* that joining and splitting on the delimiter are computed, not assumed.  *)
(* A Python dict is a sequence of [key, value] records with unique keys,   *)
(* in insertion order.  Real numbers are integers over a common positive   *)
(* scale; a normalised sample is a fraction [num, den].                    *)
(***************************************************************************)
EXTENDS Integers, Sequences, FiniteSets, TLC

VARIABLES
    \* ---- the measurement aggregator (data_factory.py) ----
    agg_mode,          \* "load" | "transformer" | "off": the function called
    agg_pc,            \* "loop" | "returned" | "raised" | "off"
    agg_entities,      \* the loads or transformers passed in, in order
    agg_monitors,      \* per entity its monitors: <<m>> or <<primary, secondary>>
    engine_header,     \* the engine: monitor element name -> Header it reports
    active_monitor,    \* the engine: the active monitor's element name
    agg_i,             \* the index of the next entity of the loop
    agg_data,          \* the local dict `data`
    agg_result,        \* what the call returned: [data_df, channel_map]
    agg_exc,           \* the exception the call raised, or "none"
    agg_md,            \* the MonitorData the latest iteration got from make_data
    \* ---- the loadshape constructor (dss_loadshape.py) ----
    shape_pc,          \* "start" | "resampled" | "done" | "raised" | "off"
    shape_values,      \* the argument `values`
    shape_n,           \* the argument `n_interpolate`: <<>> is None, <<n>> is n
    shape_self,        \* self.values
    shape_pre,         \* self.values as it was when normalisation began
    shape_exc,         \* the exception the constructor raised, or "none"
    shape_at,          \* the positions the interpolant was called with
    \* ---- the loadshape factory (loadshape_factory.py) ----
    fac_pc,            \* "running" | "returned" | "raised" | "off"
    fac_loads,         \* the argument `loads`
    fac_seed,          \* the seed the argument `rng` was created from
    fac_rng,           \* the argument `rng`, a generator the call draws from
    random_states,     \* the list `random_states`, as far as it is drawn
    loadshape_tuples,  \* the list `loadshape_tuples`, as far as it is built
    fac_result,        \* what the call returned
    fac_exc,           \* the exception the call raised, or "none"
    fac_log,           \* the draws and clone calls so far, in order
    profiles_df,       \* the profile table: column name -> samples
    norm_random_state, \* scipy.stats.norm's own random state
    \* ---- clone called directly (loadshape_prototype.py) ----
    clone_pairs,       \* the (load, random_state) pairs clone is called with
    clone_seen,        \* per pair, the results clone has returned for it
    clone_calls,       \* the number of clone calls made
    \* ---- the session (run.py) ----
    main_pc,           \* where main is: a stage of the loop body, "done" or "raised"
    main_i,            \* the position of `parameters` in parameters_list
    main_w,            \* the number of writes made for the current circuit
    parameters_list,   \* main's parameters_list
    dss,               \* the engine: its circuit, the commands it was sent
    main_locals,       \* main's local variables, by their names
    files,             \* the destinations written so far
    main_exc,          \* the exception that ended main, or "none"
    main_history,      \* per circuit, what the loadshape factory returned
    main_built,        \* the datasets built so far for the current circuit
    \* ---- one clone call of any prototype (loadshape_prototype.py) ----
    proto_pc,          \* "start" | "returned" | "raised" | "off"
    proto_self,        \* the prototype: its phase_profile_mapping and n_interpolate
    proto_kwargs,      \* the arguments of clone: load and random_state
    proto_result,      \* what clone returned or raised
    \* ---- make_load_labels called directly (label_factory.py) ----
    lab_pc,            \* "start" | "returned" | "raised" | "off"
    lab_args,          \* the arguments: loads, loadshapes, random_states
    lab_result,        \* what the call returned or raised
    \* ---- the Load constructor (dss_load.py, dss_phase.py) ----
    load_pc,           \* "start" | "constructed" | "raised" | "off"
    load_engine,       \* the engine's answers: the load's conn, phases, bus1
    load_self          \* the Load object, once it exists, and the exception

agg_vars == <<agg_mode, agg_pc, agg_entities, agg_monitors, engine_header,
              active_monitor, agg_i, agg_data, agg_result, agg_exc, agg_md>>

shape_vars == <<shape_pc, shape_values, shape_n, shape_self, shape_pre, shape_exc,
                shape_at>>

fac_vars == <<fac_pc, fac_loads, fac_seed, fac_rng, random_states, loadshape_tuples,
              fac_result, fac_exc, fac_log>>

lib_vars == <<profiles_df, norm_random_state>>

clone_vars == <<clone_pairs, clone_seen, clone_calls>>

main_vars == <<main_pc, main_i, main_w, parameters_list, dss, main_locals, files, main_exc,
               main_history, main_built>>

proto_vars == <<proto_pc, proto_self, proto_kwargs, proto_result>>

lab_vars == <<lab_pc, lab_args, lab_result>>

load_vars == <<load_pc, load_engine, load_self>>

vars == <<agg_vars, shape_vars, fac_vars, lib_vars, clone_vars, main_vars, proto_vars,
          lab_vars, load_vars>>

\* What the steps of one component leave alone.
not_agg == <<shape_vars, fac_vars, lib_vars, clone_vars, main_vars, proto_vars, lab_vars,
               load_vars>>
not_shape == <<agg_vars, fac_vars, lib_vars, clone_vars, main_vars, proto_vars, lab_vars,
                 load_vars>>
not_fac == <<agg_vars, shape_vars, clone_vars, main_vars, proto_vars, lab_vars,
               load_vars>>
not_clone == <<agg_vars, shape_vars, fac_vars, main_vars, proto_vars, lab_vars,
                 load_vars>>
not_main == <<agg_vars, shape_vars, fac_vars, clone_vars, proto_vars, lab_vars,
                load_vars>>
not_lab == <<agg_vars, shape_vars, fac_vars, lib_vars, clone_vars, main_vars, proto_vars,
             load_vars>>
not_load == <<agg_vars, shape_vars, fac_vars, lib_vars, clone_vars, main_vars, proto_vars,
              lab_vars>>
not_proto == <<agg_vars, shape_vars, fac_vars, clone_vars, main_vars, lab_vars,
                 load_vars>>

(***************************************************************************)
(* Bounds of the model.                                                    *)
(***************************************************************************)
MaxLoads == 2
MaxTransformers == 2
SampleCount == 2
MaxLen == 3
MaxValue == 2
MaxInterpolate == 4
MaxSeed == 3
MaxCalls == 3
MaxCloneSeed == 7
StreamModulus == 24

(***************************************************************************)
(* Python's built-ins, as the code uses them.                              *)
(***************************************************************************)
Range(s) == {s[i] : i \in DOMAIN s}

Min(a, b) == IF a <= b THEN a ELSE b

SeqsUpTo(S, n) == UNION {[1..k -> S] : k \in 0..n}

\* list.index(x): the 1-based position of the first x, 0 when a ValueError
\* is raised because x is absent.
list_index(list, x) ==
    IF \E i \in DOMAIN list : list[i] = x
    THEN CHOOSE i \in DOMAIN list :
            /\ list[i] = x
            /\ \A j \in 1..(i - 1) : list[j] # x
    ELSE 0

\* list[:n]
list_prefix(list, n) == SubSeq(list, 1, Min(n, Len(list)))

\* d[k] = v: replaces the value of an existing key in place, else appends.
dict_set(d, k, v) ==
    IF \E i \in DOMAIN d : d[i].key = k
    THEN [i \in DOMAIN d |-> IF d[i].key = k THEN [key |-> k, value |-> v] ELSE d[i]]
    ELSE Append(d, [key |-> k, value |-> v])

dict_has(d, k) == \E i \in DOMAIN d : d[i].key = k

dict_get(d, k) == d[CHOOSE i \in DOMAIN d : d[i].key = k].value

dict_keys(d) == [i \in DOMAIN d |-> d[i].key]

\* str.split(sep) for a one-token separator: the pieces between separators,
\* always at least one piece.
RECURSIVE str_split(_, _)
str_split(s, sep) ==
    IF \A i \in DOMAIN s : s[i] # sep
    THEN <<s>>
    ELSE LET p == CHOOSE i \in DOMAIN s :
                    /\ s[i] = sep
                    /\ \A j \in 1..(i - 1) : s[j] # sep
         IN <<SubSeq(s, 1, p - 1)>> \o str_split(SubSeq(s, p + 1, Len(s)), sep)

\* str.replace(" ", "")
str_strip_spaces(s) == SelectSeq(s, LAMBDA t : t # " ")

(***************************************************************************)
(* Names (dss_name.py) and the objects built on them.                      *)
(***************************************************************************)
delimiter == "|"

Name(class_, element) == [class_ |-> class_, element |-> element]

NameObject(name) == <<name.class_, ".">> \o name.element

Phases == {"A", "B", "C", "AB", "AC", "BC", "ABC"}

\* A variant that counts a line-to-line load as the single-phase load
\* OpenDSS reports it to be.
_meter_counts_as_phase_count(phase) ==
    CASE phase \in {"A", "B", "C"} -> 1
      [] phase \in {"AB", "AC", "BC"} -> 1
      [] phase = "ABC" -> 3

_meter_counts(phase) ==
    CASE phase \in {"A", "B", "C"} -> 1
      [] phase \in {"AB", "AC", "BC"} -> 2
      [] phase = "ABC" -> 3

Load(element, phase) ==
    [name |-> Name("load", element), phase |-> phase,
     meter_count |-> _meter_counts(phase)]

Transformer(element) == [name |-> Name("transformer", element)]

\* Monitor.__init__ with mode 0: the monitor's own name.
Monitor(target_object, terminal) ==
    [name |-> Name("monitor",
                   <<target_object.name.class_, "_">> \o target_object.name.element
                   \o <<"-", "mode_0", "-", "terminal_", terminal>>)]

(***************************************************************************)
(* The engine's monitor interface and Monitor.make_data.                   *)
(***************************************************************************)
\* Monitors.Channel(index) and Monitors.dblHour (index 0) of the active
\* monitor `active`: one recorded sample per timestep, in timestep order.
engine_channel(active, index) == [t \in 1..SampleCount |-> <<active, index, t>>]

\* Monitor.make_data from `self._i_monitors.Name = ...` on; `active` is the
\* engine's active monitor once the name was set.
make_data_read(self, header, active) ==
    LET channel_count == Len(header[active])
        raw_names     == <<<<"hours">>>> \o header[active]
    IN [channel_names |-> [i \in DOMAIN raw_names |-> str_strip_spaces(raw_names[i])],
        data          |-> [c \in 0..channel_count |-> engine_channel(active, c)],
        monitor_name  |-> self.name]

\* A variant that sets the name only when the engine has no active monitor.
make_data_select_once(self, active) ==
    IF active = <<>> THEN self.name.element ELSE active

\* The active monitor make_data reads from: self._i_monitors.Name was set.
make_data_select(self, active) == self.name.element

make_data(self, header, active) ==
    make_data_read(self, header, make_data_select(self, active))

(***************************************************************************)
(* data_factory.make_load_voltage_magnitude_data                           *)
(***************************************************************************)
VoltageChannels == <<<<"V1">>, <<"V2">>, <<"V3">>>>

LoadColumnName(load, channel_name) ==
    NameObject(load.name) \o <<delimiter>> \o channel_name

\* A variant that skips a channel the monitor does not report.
RECURSIVE LoadChannelLoopSkipping(_, _, _, _)
LoadChannelLoopSkipping(st, load, data_md, channel_names) ==
    IF channel_names = <<>> THEN st
    ELSE LET channel_name  == Head(channel_names)
             channel_index == list_index(data_md.channel_names, channel_name)
         IN IF channel_index = 0
            THEN LoadChannelLoopSkipping(st, load, data_md, Tail(channel_names))
            ELSE LoadChannelLoopSkipping(
                    [st EXCEPT !.data = dict_set(st.data,
                                                 LoadColumnName(load, channel_name),
                                                 data_md.data[channel_index - 1])],
                    load, data_md, Tail(channel_names))

\* A variant that keeps a column that is already there: data.setdefault.
RECURSIVE LoadChannelLoopKeeping(_, _, _, _)
LoadChannelLoopKeeping(st, load, data_md, channel_names) ==
    IF channel_names = <<>> \/ st.exc # "none" THEN st
    ELSE LET channel_name  == Head(channel_names)
             channel_index == list_index(data_md.channel_names, channel_name)
         IN IF channel_index = 0
            THEN [st EXCEPT !.exc = "ValueError"]
            ELSE LoadChannelLoopKeeping(
                    [st EXCEPT !.data =
                        IF dict_has(st.data, LoadColumnName(load, channel_name))
                        THEN st.data
                        ELSE dict_set(st.data, LoadColumnName(load, channel_name),
                                      data_md.data[channel_index - 1])],
                    load, data_md, Tail(channel_names))

\* The inner loop over channel_names for one load: st is [exc, data].
RECURSIVE LoadChannelLoop(_, _, _, _)
LoadChannelLoop(st, load, data_md, channel_names) ==
    IF channel_names = <<>> \/ st.exc # "none" THEN st
    ELSE LET channel_name  == Head(channel_names)
             channel_index == list_index(data_md.channel_names, channel_name)
         IN IF channel_index = 0
            THEN [st EXCEPT !.exc = "ValueError"]
            ELSE LoadChannelLoop(
                    [st EXCEPT !.data = dict_set(st.data,
                                                 LoadColumnName(load, channel_name),
                                                 data_md.data[channel_index - 1])],
                    load, data_md, Tail(channel_names))

\* A variant that ignores the load's meter_count.
LoadChannelNamesAll(load) == VoltageChannels

\* A variant that takes the channels from the highest down.
LoadChannelNamesDescending(load) ==
    [c \in 1..Min(load.meter_count, Len(VoltageChannels)) |->
        VoltageChannels[Min(load.meter_count, Len(VoltageChannels)) + 1 - c]]

LoadChannelNames(load) == list_prefix(VoltageChannels, load.meter_count)

\* One iteration of the loop over zip(loads, monitors).
LoadLoopBody(data, load, data_md) ==
    LoadChannelLoop([exc |-> "none", data |-> data], load, data_md,
                    LoadChannelNames(load))

\* A variant that starts a fresh list at every column.
ChannelMapAppendFresh(channel_map, load_name, i) ==
    dict_set(channel_map, load_name, <<i>>)

\* A variant that puts the newest index first: insert(0, i).
ChannelMapPrepend(channel_map, load_name, i) ==
    dict_set(channel_map, load_name,
             IF dict_has(channel_map, load_name)
             THEN <<i>> \o dict_get(channel_map, load_name)
             ELSE <<i>>)

\* channel_map[load_name].append(i), creating the list first when absent.
ChannelMapAppend(channel_map, load_name, i) ==
    dict_set(channel_map, load_name,
             IF dict_has(channel_map, load_name)
             THEN Append(dict_get(channel_map, load_name), i)
             ELSE <<i>>)

\* A variant that takes what precedes the first delimiter, however many
\* pieces the name has: meter_name.split(delimiter)[0].
RECURSIVE ChannelMapLoopTruncating(_, _, _)
ChannelMapLoopTruncating(st, columns, pos) ==
    IF pos > Len(columns) THEN st
    ELSE ChannelMapLoopTruncating(
            [st EXCEPT !.channel_map =
                ChannelMapAppend(st.channel_map,
                                 str_split(columns[pos], delimiter)[1], pos - 1)],
            columns, pos + 1)

\* The loop over enumerate(data_df.columns): st is [exc, channel_map], and
\* column `pos` (1-based here) has index pos - 1.
RECURSIVE ChannelMapLoop(_, _, _)
ChannelMapLoop(st, columns, pos) ==
    IF pos > Len(columns) \/ st.exc # "none" THEN st
    ELSE LET parts == str_split(columns[pos], delimiter)
         IN IF Len(parts) # 2
            THEN [st EXCEPT !.exc = "ValueError"]
            ELSE ChannelMapLoop(
                    [st EXCEPT !.channel_map =
                        ChannelMapAppend(st.channel_map, parts[1], pos - 1)],
                    columns, pos + 1)

MakeChannelMap(columns) ==
    ChannelMapLoop([exc |-> "none", channel_map |-> <<>>], columns, 1)

(***************************************************************************)
(* data_factory.make_transformer_voltage_magnitude_data                    *)
(***************************************************************************)
TransformerColumnName(transformer, side, channel_name) ==
    NameObject(transformer.name) \o <<delimiter, side, delimiter>> \o channel_name

RECURSIVE TransformerChannelLoop(_, _, _, _, _)
TransformerChannelLoop(st, transformer, primary_md, secondary_md, channel_names) ==
    IF channel_names = <<>> \/ st.exc # "none" THEN st
    ELSE LET channel_name == Head(channel_names)
             index_primary   == list_index(primary_md.channel_names, channel_name)
             index_secondary == list_index(secondary_md.channel_names, channel_name)
         IN IF index_primary = 0 \/ index_secondary = 0
            THEN [st EXCEPT !.exc = "ValueError"]
            ELSE TransformerChannelLoop(
                    [st EXCEPT !.data =
                        dict_set(dict_set(st.data,
                                    TransformerColumnName(transformer, "primary", channel_name),
                                    primary_md.data[index_primary - 1]),
                                 TransformerColumnName(transformer, "secondary", channel_name),
                                 secondary_md.data[index_secondary - 1])],
                    transformer, primary_md, secondary_md, Tail(channel_names))

\* A variant that truncates the channel names as the load aggregation does.
TransformerChannelNamesTwo == list_prefix(VoltageChannels, 2)

TransformerChannelNames == VoltageChannels

TransformerLoopBody(data, transformer, primary_md, secondary_md) ==
    TransformerChannelLoop([exc |-> "none", data |-> data], transformer,
                           primary_md, secondary_md, TransformerChannelNames)

(***************************************************************************)
(* The inputs of the aggregator's specification.                           *)
(***************************************************************************)
ElementNames == {<<"a">>, <<"b">>, <<"a", delimiter, "b">>}

\* Headers the engine reports for a monitor in mode 0 (some names carry the
\* extra space the interface returns).
Headers ==
    {<<<<" ", "V1">>, <<" ", "VAngle1">>, <<" ", "V2">>, <<" ", "VAngle2">>,
       <<" ", "V3">>, <<" ", "VAngle3">>>>,
     <<<<" ", "V1">>, <<" ", "VAngle1">>, <<" ", "V2">>, <<" ", "VAngle2">>>>,
     <<<<" ", "V1">>, <<" ", "VAngle1">>>>,
     <<<<" ", "V1">>, <<" ", "VAngle1">>, <<" ", "V3">>, <<" ", "VAngle3">>>>}

TransformerHeaders ==
    {<<<<" ", "V1">>, <<" ", "VAngle1">>, <<" ", "V2">>, <<" ", "VAngle2">>,
       <<" ", "V3">>, <<" ", "VAngle3">>>>,
     <<<<" ", "V1">>, <<" ", "VAngle1">>, <<" ", "V2">>, <<" ", "VAngle2">>>>}

AggPhases == {"A", "BC", "ABC"}

\* The terminal the monitor of the i-th load is on: a load whose identifier
\* an earlier load has is monitored on terminal 2, so that the two monitors
\* are different ones.
AggLoadTerminal(els, i) ==
    IF \E j \in 1..(i - 1) : els[j] = els[i] THEN "2" ELSE "1"

AggInitLoad ==
    /\ agg_mode = "load"
    /\ \E els \in SeqsUpTo(ElementNames, MaxLoads) :
         \E phase_of \in [DOMAIN els -> AggPhases] :
            /\ agg_entities = [i \in DOMAIN els |-> Load(els[i], phase_of[i])]
            /\ agg_monitors = [i \in DOMAIN els |->
                                 <<Monitor(Load(els[i], phase_of[i]),
                                           AggLoadTerminal(els, i))>>]
    /\ engine_header \in [{agg_monitors[i][1].name.element : i \in DOMAIN agg_monitors}
                            -> Headers]

AggInitTransformer ==
    /\ agg_mode = "transformer"
    /\ \E els \in SeqsUpTo(ElementNames, MaxTransformers) :
            /\ agg_entities = [i \in DOMAIN els |-> Transformer(els[i])]
            /\ agg_monitors = [i \in DOMAIN els |->
                                 <<Monitor(Transformer(els[i]), "1"),
                                   Monitor(Transformer(els[i]), "2")>>]
    /\ engine_header \in [{agg_monitors[i][k].name.element :
                                i \in DOMAIN agg_monitors, k \in {1, 2}}
                            -> TransformerHeaders]

AggStart ==
    /\ AggInitLoad \/ AggInitTransformer
    /\ agg_pc = "loop"
    /\ active_monitor = <<>>
    /\ agg_i = 1
    /\ agg_data = <<>>
    /\ agg_result = <<>>
    /\ agg_exc = "none"
    /\ agg_md = <<>>

(***************************************************************************)
(* The aggregator's steps: one per loop iteration, one for what follows    *)
(* the loop.                                                               *)
(***************************************************************************)
AggLoadStep ==
    /\ agg_mode = "load" /\ agg_pc = "loop"
    /\ agg_i <= Min(Len(agg_entities), Len(agg_monitors))
    /\ LET load    == agg_entities[agg_i]
           monitor == agg_monitors[agg_i][1]
           active  == make_data_select(monitor, active_monitor)
           data_md == make_data(monitor, engine_header, active_monitor)
           st      == LoadLoopBody(agg_data, load, data_md)
       IN /\ active_monitor' = active
          /\ agg_md' = <<[monitor |-> monitor, data_md |-> data_md]>>
          /\ IF st.exc # "none"
             THEN /\ agg_pc' = "raised"
                  /\ agg_exc' = st.exc
                  /\ UNCHANGED <<agg_i, agg_data>>
             ELSE /\ agg_data' = st.data
                  /\ agg_i' = agg_i + 1
                  /\ UNCHANGED <<agg_pc, agg_exc>>
    /\ UNCHANGED <<agg_mode, agg_entities, agg_monitors, engine_header, agg_result>>
    /\ UNCHANGED not_agg

AggLoadFinish ==
    /\ agg_mode = "load" /\ agg_pc = "loop"
    /\ agg_i > Min(Len(agg_entities), Len(agg_monitors))
    /\ LET st == MakeChannelMap(dict_keys(agg_data))
       IN IF st.exc # "none"
          THEN /\ agg_pc' = "raised"
               /\ agg_exc' = st.exc
               /\ UNCHANGED agg_result
          ELSE /\ agg_pc' = "returned"
               /\ agg_result' = [data_df |-> agg_data, channel_map |-> st.channel_map]
               /\ UNCHANGED agg_exc
    /\ UNCHANGED <<agg_mode, agg_entities, agg_monitors, engine_header,
                   active_monitor, agg_i, agg_data, agg_md>>
    /\ UNCHANGED not_agg

AggTransformerStep ==
    /\ agg_mode = "transformer" /\ agg_pc = "loop"
    /\ agg_i <= Min(Len(agg_entities), Len(agg_monitors))
    /\ LET transformer  == agg_entities[agg_i]
           primary      == agg_monitors[agg_i][1]
           secondary    == agg_monitors[agg_i][2]
           active1      == make_data_select(primary, active_monitor)
           primary_md   == make_data(primary, engine_header, active_monitor)
           active2      == make_data_select(secondary, active1)
           secondary_md == make_data(secondary, engine_header, active1)
           st == TransformerLoopBody(agg_data, transformer, primary_md, secondary_md)
       IN /\ active_monitor' = active2
          /\ agg_md' = <<[monitor |-> primary, data_md |-> primary_md],
                         [monitor |-> secondary, data_md |-> secondary_md]>>
          /\ IF st.exc # "none"
             THEN /\ agg_pc' = "raised"
                  /\ agg_exc' = st.exc
                  /\ UNCHANGED <<agg_i, agg_data>>
             ELSE /\ agg_data' = st.data
                  /\ agg_i' = agg_i + 1
                  /\ UNCHANGED <<agg_pc, agg_exc>>
    /\ UNCHANGED <<agg_mode, agg_entities, agg_monitors, engine_header, agg_result>>
    /\ UNCHANGED not_agg

AggTransformerFinish ==
    /\ agg_mode = "transformer" /\ agg_pc = "loop"
    /\ agg_i > Min(Len(agg_entities), Len(agg_monitors))
    /\ agg_pc' = "returned"
    /\ agg_result' = [data_df |-> agg_data]
    /\ UNCHANGED <<agg_mode, agg_entities, agg_monitors, engine_header,
                   active_monitor, agg_i, agg_data, agg_exc, agg_md>>
    /\ UNCHANGED not_agg

(***************************************************************************)
(* dss_loadshape.LoadShape.__init__                                        *)
(*                                                                         *)
(* A float is a fraction [num, den] with den > 0, and NaN is den = 0; the  *)
(* samples of one array share their den.  Arithmetic is exact.             *)
(***************************************************************************)
Frac(num, den) == [num |-> num, den |-> den]

NaN == Frac(0, 0)

IsNaN(x) == x.den = 0

\* values.copy()
values_copy(values) == [i \in DOMAIN values |-> Frac(values[i], 1)]

\* A variant that spreads the positions from the first sample to the last:
\* np.linspace(0, L - 1, n).
np_linspace_positions(L, n) ==
    [i \in 1..n |-> IF n = 1 THEN Frac(0, 1) ELSE Frac((i - 1) * (L - 1), n - 1)]

\* np.arange(start=0, stop=L, step=L / n) for n > 0: the n positions
\* 0, L/n, 2L/n, ..., (n-1)L/n.
np_arange_positions(L, n) == [i \in 1..n |-> Frac((i - 1) * L, n)]

\* ceil(p) for a fraction p >= 0.
CeilFrac(p) == (p.num + p.den - 1) \div p.den

Clip(v, lo, hi) == IF v < lo THEN IF lo > hi THEN hi ELSE lo
                   ELSE IF v > hi THEN hi ELSE v

\* interp1d(x=arange(L), y=values, kind="linear", fill_value="extrapolate")
\* called at position p: the line through the samples around p, and through
\* the last two samples to the right of the last one.  With one sample the
\* two ends of the line coincide and its slope is 0/0.
interp1d_linear(values, p) ==
    LET L  == Len(values)
        hi == Clip(CeilFrac(p), 1, L - 1)
        lo == hi - 1
    IN IF L < 2 THEN NaN
       ELSE Frac(p.den * values[lo + 1]
                    + (values[hi + 1] - values[lo + 1]) * (p.num - lo * p.den),
                 p.den)

\* Lines 94 to 103: self.values before it is scaled; [exc, values, at],
\* where `at` holds the positions the interpolant was called with.
ShapeResampled(values, n_interpolate) ==
    IF n_interpolate = <<>>
    THEN [exc |-> "none", values |-> values_copy(values), at |-> <<>>]
    ELSE LET n == n_interpolate[1]
             resampled(at) ==
                [exc |-> "none",
                 values |-> [i \in DOMAIN at |-> interp1d_linear(values, at[i])],
                 at |-> at]
         IN IF Len(values) = 0
            THEN [exc |-> "ValueError", values |-> <<>>, at |-> <<>>]
            ELSE IF n = 0
            THEN [exc |-> "ZeroDivisionError", values |-> <<>>, at |-> <<>>]
            ELSE resampled(np_arange_positions(Len(values), n))

SeqMin(xs) == CHOOSE m \in Range(xs) : \A x \in Range(xs) : m.num <= x.num

SeqMax(xs) == CHOOSE m \in Range(xs) : \A x \in Range(xs) : m.num >= x.num

\* A variant that scales by hand: (x - min) / (max - min).
np_interp_ratio(x, xp0, xp1) ==
    IF IsNaN(x) \/ IsNaN(xp0) \/ IsNaN(xp1) \/ xp0.num = xp1.num THEN NaN
    ELSE Frac(x.num - xp0.num, xp1.num - xp0.num)

\* np.interp(x, xp=(xp0, xp1), fp=(0, 1)) for one sample x, as numpy's
\* binary search over the two breakpoints decides it.
np_interp(x, xp0, xp1) ==
    IF IsNaN(x) \/ IsNaN(xp0) \/ IsNaN(xp1) THEN NaN
    ELSE IF x.num > xp1.num THEN Frac(1, 1)
    ELSE IF x.num < xp0.num THEN Frac(0, 1)
    ELSE IF x.num >= xp1.num THEN Frac(1, 1)
    ELSE IF x.num = xp0.num THEN Frac(0, 1)
    ELSE Frac(x.num - xp0.num, xp1.num - xp0.num)

\* A variant that scales from zero instead of from the minimum.
ScaleBreakpointsFromZero(xs) == <<Frac(0, SeqMax(xs).den), SeqMax(xs)>>

\* xp=(self.values.min(), self.values.max())
ScaleBreakpoints(xs) == <<SeqMin(xs), SeqMax(xs)>>

\* Line 106: [exc, values].
ShapeScaled(xs) ==
    IF Len(xs) = 0
    THEN [exc |-> "ValueError", values |-> <<>>]
    ELSE LET xp == ScaleBreakpoints(xs)
         IN [exc |-> "none",
             values |-> [i \in DOMAIN xs |-> np_interp(xs[i], xp[1], xp[2])]]

ShapeStart ==
    /\ shape_pc = "start"
    /\ shape_values \in SeqsUpTo(0..MaxValue, MaxLen)
    /\ shape_n \in {<<>>} \cup {<<n>> : n \in 0..MaxInterpolate}
    /\ shape_self = <<>>
    /\ shape_pre = <<>>
    /\ shape_exc = "none"
    /\ shape_at = <<>>

ShapeResample ==
    /\ shape_pc = "start"
    /\ LET st == ShapeResampled(shape_values, shape_n)
       IN IF st.exc # "none"
          THEN /\ shape_pc' = "raised"
               /\ shape_exc' = st.exc
               /\ UNCHANGED shape_self
          ELSE /\ shape_pc' = "resampled"
               /\ shape_self' = st.values
               /\ UNCHANGED shape_exc
    /\ shape_at' = ShapeResampled(shape_values, shape_n).at
    /\ UNCHANGED <<shape_values, shape_n, shape_pre>>
    /\ UNCHANGED not_shape

ShapeScale ==
    /\ shape_pc = "resampled"
    /\ LET st == ShapeScaled(shape_self)
       IN IF st.exc # "none"
          THEN /\ shape_pc' = "raised"
               /\ shape_exc' = st.exc
               /\ UNCHANGED <<shape_self, shape_pre>>
          ELSE /\ shape_pc' = "done"
               /\ shape_self' = st.values
               /\ shape_pre' = shape_self
               /\ UNCHANGED shape_exc
    /\ UNCHANGED <<shape_values, shape_n, shape_at>>
    /\ UNCHANGED not_shape

(***************************************************************************)
(* numpy and scipy random numbers.  A generator is [seed, pos]: the seed   *)
(* it was created from and the number of words drawn from it so far.  The  *)
(* word at a position is a fixed function of the two; a small stream       *)
(* stands for the library's.                                               *)
(***************************************************************************)
Int32Max == 2147483647

\* np.random.default_rng(seed=seed)
default_rng(seed) == [seed |-> seed, pos |-> 0]

\* The words run over the whole range of the generator, here 0..Int32Max:
\* the odd places of the small stream are counted down from the top.
StreamWord(g) ==
    LET h == ((g.seed % StreamModulus) * 7 + g.pos * 5 + 1) % StreamModulus
    IN IF h % 2 = 1 THEN Int32Max - (h \div 2) ELSE h

\* rng.integers(low, high): [exc, value, rng]; high is exclusive.
rng_integers(g, low, high) ==
    IF high <= low
    THEN [exc |-> "ValueError", value |-> 0, rng |-> g]
    ELSE [exc |-> "none",
          value |-> low + (StreamWord(g) % (high - low)),
          rng |-> [g EXCEPT !.pos = @ + 1]]

\* A variant whose bound is one too high: rng.integers(iinfo(int32).max + 1).
draw_random_state_wide(rng) ==
    [exc |-> "none", value |-> StreamWord(rng), rng |-> [rng EXCEPT !.pos = @ + 1]]

\* rng.integers(np.iinfo(np.int32).max), one element of random_states.
draw_random_state(rng) == rng_integers(rng, 0, Int32Max)

\* The i-th standard normal sample of a RandomState g, as a small integer.
normal_sample(g, i) ==
    ((((g.seed % StreamModulus) + 2) * 3 + (g.pos + i) * 7) % 5) - 2

\* norm.rvs without random_state: the samples come from the distribution's
\* own state, which moves on.
norm_rvs_shared(scale, size, random_state, state) ==
    [values |-> [i \in 1..size |-> scale * normal_sample(state, i)],
     state  |-> [state EXCEPT !.pos = @ + size]]

\* scipy.stats.norm.rvs(loc=0.0, scale=scale, size=size, random_state=seed):
\* the samples come from a RandomState made for the call; the
\* distribution's own state is put back.  [values, state]; a sample is
\* scale times a standard normal sample.
norm_rvs(scale, size, random_state, state) ==
    [values |-> [i \in 1..size |-> scale * normal_sample(default_rng(random_state), i)],
     state  |-> state]

(***************************************************************************)
(* loadshape_factory.make_ercot_iqr_random_loadshapes: its tables.         *)
(***************************************************************************)
single_wye ==
    <<"BUSLOLF_SCENT", "BUSLOPV_SCENT", "BUSLOWD_SCENT", "BUSLODG_SCENT", "RESLOWR_SCENT",
      "RESHIWR_SCENT", "RESLOPV_SCENT", "RESHIPV_SCENT", "RESLOWD_SCENT", "RESHIWD_SCENT",
      "RESLODG_SCENT", "RESHIDG_SCENT">>

\* A variant with one identifier typed twice.
single_delta_repeated ==
    <<"BUSMEDLF_SCENT", "BUSMEDPV_SCENT", "BUSMEDWD_SCENT", "BUSMEDWD_SCENT">>

single_delta == <<"BUSMEDLF_SCENT", "BUSMEDPV_SCENT", "BUSMEDWD_SCENT", "BUSMEDDG_SCENT">>

triple == <<"BUSHILF_SCENT", "BUSHIPV_SCENT", "BUSHIWD_SCENT", "BUSHIDG_SCENT">>

\* A variant that gives the line-to-line phases the single-phase profiles.
phase_profile_mapping_wye(phase) ==
    IF phase = "ABC" THEN triple ELSE single_wye

phase_profile_mapping(phase) ==
    CASE phase \in {"A", "B", "C"} -> single_wye
      [] phase \in {"AB", "AC", "BC"} -> single_delta
      [] phase = "ABC" -> triple

\* make_values: [values, state], in units of a tenth of the unit of `iqr`.
make_values(iqr, n_timestep, random_state, state) ==
    norm_rvs(iqr, n_timestep, random_state, state)

(***************************************************************************)
(* loadshape_prototype.IqrRandomLoadShapePrototype.clone                   *)
(***************************************************************************)
Sum(xs) == LET RECURSIVE S(_)
               S(k) == IF k = 0 THEN 0 ELSE xs[k] + S(k - 1)
           IN S(Len(xs))

\* profile - np.mean(profile), in units of 1/len(profile).
Centered(profile) == [i \in DOMAIN profile |-> Len(profile) * profile[i] - Sum(profile)]

\* np.percentile(x, q) with linear interpolation, times 4, for q = 25 * k.
Percentile4(x, k) ==
    LET sorted == SortSeq(x, LAMBDA a, b : a < b)
        h4     == (Len(x) - 1) * k
        lower  == h4 \div 4
        part   == h4 % 4
    IN IF part = 0 THEN 4 * sorted[lower + 1]
       ELSE 4 * sorted[lower + 1] + part * (sorted[lower + 2] - sorted[lower + 1])

\* scipy.stats.iqr(x), times 4.
scipy_iqr4(x) == Percentile4(x, 3) - Percentile4(x, 1)

\* The whole of LoadShape.__init__ as clone sees it: [exc, values].
LoadShapeValues(values, n_interpolate) ==
    LET resampled == ShapeResampled(values, n_interpolate)
    IN IF resampled.exc # "none" THEN resampled
       ELSE ShapeScaled(resampled.values)

Recurrence == "yearly"

\* The prototype's n_interpolate: the factory leaves it at its default.
PrototypeInterpolate == <<>>

\* A variant that falls back on the single-phase pool:
\* mapping.get(phase) or single_wye.
mapping_lookup_default(mapping, phase) ==
    [exc |-> "none",
     profile_names |-> IF phase \in DOMAIN mapping /\ mapping[phase] # <<>>
                       THEN mapping[phase] ELSE single_wye]

\* self._phase_profile_mapping[load.phase]: [exc, profile_names].
mapping_lookup(mapping, phase) ==
    IF phase \notin DOMAIN mapping
    THEN [exc |-> "KeyError", profile_names |-> <<>>]
    ELSE [exc |-> "none", profile_names |-> mapping[phase]]

\* A variant that substitutes the profile of the same class for another
\* zone's, or else the first column, when the key is absent.
column_lookup_nearest(table, profile_name) ==
    IF profile_name \in DOMAIN table
    THEN [exc |-> "none", profile |-> table[profile_name]]
    ELSE [exc |-> "none",
          profile |-> table[CHOOSE name \in DOMAIN table : TRUE]]

\* self._profiles_df.loc[:, profile_name].to_numpy(dtype=float):
\* [exc, profile].
column_lookup(table, profile_name) ==
    IF profile_name \notin DOMAIN table
    THEN [exc |-> "KeyError", profile |-> <<>>]
    ELSE [exc |-> "none", profile |-> table[profile_name]]

\* A variant that adds in place: a += b.
np_add_in_place(a, b) ==
    [result |-> [i \in DOMAIN a |-> a[i] + b[i]],
     a      |-> [i \in DOMAIN a |-> a[i] + b[i]]]

\* a + b on arrays: [result, a], a new array and the left operand as the
\* operation leaves it.
np_add(a, b) == [result |-> [i \in DOMAIN a |-> a[i] + b[i]], a |-> a]

\* The table once the array `profile`, which to_numpy may hand out as a view
\* of the column, holds `scaled` (in units of 1/unit, rounded down to the
\* table's whole numbers).
table_through_view(table, profile_name, scaled, unit) ==
    [table EXCEPT ![profile_name] = [i \in DOMAIN scaled |-> scaled[i] \div unit]]

\* clone(load, random_state) of a prototype made with phase_profile_mapping
\* `mapping` (phase -> list of profile names), profiles_df `table` and
\* n_interpolate: [exc, command_edit, loadshape, state, table], where state
\* is norm's own random state and table the profile table after the call.  With L = len(profile), `values`
\* is held in units of 1/(40 L), which the scaling to [0,1] does not depend
\* on.  Of an empty profile the percentiles do not exist: the call raises
\* (which exception depends on the version of the libraries).
prototype_clone(mapping, table, n_interpolate, load, random_state, state) ==
    LET failed(exc) == [exc |-> exc, command_edit |-> <<>>, loadshape |-> <<>>,
                        state |-> state, table |-> table]
        made(profile_name, profile, L, noise, built, name, after) ==
            IF built.exc # "none"
            THEN [failed(built.exc) EXCEPT !.state = noise.state, !.table = after]
            ELSE [exc |-> "none",
                  command_edit |-> NameObject(load.name) \o <<".", Recurrence, "=">>
                                       \o name.element,
                  loadshape |-> [name |-> name, profile_name |-> profile_name,
                                 recurrence |-> Recurrence, values |-> built.values],
                  state |-> noise.state,
                  table |-> after]
        added(profile_name, profile, L, noise, values) ==
            made(profile_name, profile, L, noise,
                 LoadShapeValues(values.result, n_interpolate),
                 Name("loadshape",
                      <<"load_">> \o load.name.element \o <<"_", profile_name>>),
                 table_through_view(table, profile_name, values.a, 40 * L))
        noised(profile_name, profile, L, noise) ==
            added(profile_name, profile, L, noise,
                  np_add([i \in 1..L |-> 40 * L * profile[i]], noise.values))
        read(profile_name, profile, L) ==
            IF L = 0 THEN failed("ValueError")
            ELSE noised(profile_name, profile, L,
                        make_values(scipy_iqr4(Centered(profile)), L, random_state, state))
        found(profile_name, column) ==
            IF column.exc # "none" THEN failed(column.exc)
            ELSE read(profile_name, column.profile, Len(column.profile))
        selected(profile_name) == found(profile_name, column_lookup(table, profile_name))
        indexed(profile_names, drawn) ==
            IF drawn.exc # "none" THEN failed(drawn.exc)
            ELSE selected(profile_names[drawn.value + 1])
        mapped(profile_names) ==
            indexed(profile_names,
                    rng_integers(default_rng(random_state), 0, Len(profile_names)))
        looked(names) ==
            IF names.exc # "none" THEN failed(names.exc) ELSE mapped(names.profile_names)
    IN looked(mapping_lookup(mapping, load.phase))

\* The mapping the factory hands to its prototype.
FactoryMapping == [phase \in Phases |-> phase_profile_mapping(phase)]

\* clone(load, random_state) of the prototype the factory builds.
clone(table, load, random_state, state) ==
    prototype_clone(FactoryMapping, table, PrototypeInterpolate, load, random_state, state)

(***************************************************************************)
(* The inputs of the factory and of clone.                                 *)
(***************************************************************************)
AllProfileNames == Range(single_wye) \cup Range(single_delta) \cup Range(triple)

ProfileShapes == <<(<<1, 3, 2>>), (<<2, 2, 2>>), (<<0, 4, 1>>), (<<5, 1, 1>>)>>

PositionIn(list, x) == CHOOSE i \in DOMAIN list : list[i] = x

FullTable ==
    [name \in AllProfileNames |->
        ProfileShapes[(PositionIn(single_wye \o single_delta \o triple, name)
                          % Len(ProfileShapes)) + 1]]

TableWithout(names) == [name \in AllProfileNames \ names |-> FullTable[name]]

\* A table whose every profile is the constant series 10, 10, 10, 10.
ConstantTable == [name \in AllProfileNames |-> <<10, 10, 10, 10>>]

ProfileTables ==
    {FullTable, ConstantTable,
     TableWithout({"BUSHILF_SCENT", "BUSMEDPV_SCENT", "RESLOWR_SCENT"})}

LoadElement(i) == <<"l", ToString(i)>>

LibStart ==
    /\ profiles_df \in ProfileTables
    /\ norm_random_state = default_rng(0)

(***************************************************************************)
(* The factory's steps: one per seed drawn, one per clone call, one for    *)
(* the return.                                                             *)
(***************************************************************************)
FacStart ==
    /\ fac_pc = "running"
    /\ \E phases \in SeqsUpTo(Phases, MaxLoads) :
            fac_loads = [i \in DOMAIN phases |-> Load(LoadElement(i), phases[i])]
    /\ fac_seed \in 0..MaxSeed
    /\ fac_rng = default_rng(fac_seed)
    /\ random_states = <<>>
    /\ loadshape_tuples = <<>>
    /\ fac_result = <<>>
    /\ fac_exc = "none"
    /\ fac_log = <<>>

\* A variant in which random_states is produced on demand, one seed as each
\* clone call asks for it.
CloneMayRunLazily(drawn, cloned, n) == cloned < drawn

\* The list of seeds is complete before the list of clones is begun.
CloneMayRun(drawn, cloned, n) == drawn = n /\ cloned < n

FacDrawStep ==
    /\ fac_pc = "running"
    /\ Len(random_states) < Len(fac_loads)
    /\ LET drawn == draw_random_state(fac_rng)
       IN /\ random_states' = Append(random_states, drawn.value)
          /\ fac_rng' = drawn.rng
    /\ fac_log' = Append(fac_log, "draw")
    /\ UNCHANGED <<fac_pc, fac_loads, fac_seed, loadshape_tuples, fac_result, fac_exc>>
    /\ UNCHANGED lib_vars
    /\ UNCHANGED not_fac

FacCloneStep ==
    /\ fac_pc = "running"
    /\ CloneMayRun(Len(random_states), Len(loadshape_tuples), Len(fac_loads))
    /\ LET k == Len(loadshape_tuples) + 1
           r == clone(profiles_df, fac_loads[k], random_states[k], norm_random_state)
       IN /\ norm_random_state' = r.state
          /\ profiles_df' = r.table
          /\ IF r.exc # "none"
             THEN /\ fac_pc' = "raised"
                  /\ fac_exc' = r.exc
                  /\ UNCHANGED loadshape_tuples
             ELSE /\ loadshape_tuples' = Append(loadshape_tuples,
                                                <<r.command_edit, r.loadshape>>)
                  /\ UNCHANGED <<fac_pc, fac_exc>>
    /\ fac_log' = Append(fac_log, "clone")
    /\ UNCHANGED <<fac_loads, fac_seed, fac_rng, random_states, fac_result>>
    /\ UNCHANGED not_fac

FacReturn ==
    /\ fac_pc = "running"
    /\ Len(random_states) = Len(fac_loads)
    /\ Len(loadshape_tuples) = Len(fac_loads)
    /\ fac_pc' = "returned"
    /\ fac_result' = [edit_commands |-> [k \in DOMAIN loadshape_tuples |-> loadshape_tuples[k][1]],
                      loadshapes    |-> [k \in DOMAIN loadshape_tuples |-> loadshape_tuples[k][2]],
                      random_states |-> random_states]
    /\ UNCHANGED <<fac_loads, fac_seed, fac_rng, random_states, loadshape_tuples,
                   fac_exc, fac_log>>
    /\ UNCHANGED lib_vars
    /\ UNCHANGED not_fac

(***************************************************************************)
(* clone called directly, for any pairs, in any order, any number of times.*)
(***************************************************************************)
PairIds == {1, 2}

CloneStart ==
    /\ clone_pairs \in [PairIds -> [phase : Phases, random_state : 0..MaxCloneSeed]]
    /\ clone_seen = [p \in PairIds |-> {}]
    /\ clone_calls = 0

CloneLoad(p) == Load(LoadElement(p), clone_pairs[p].phase)

CloneCall(p) ==
    /\ clone_calls < MaxCalls
    /\ LET r == clone(profiles_df, CloneLoad(p), clone_pairs[p].random_state,
                      norm_random_state)
       IN /\ norm_random_state' = r.state
          /\ profiles_df' = r.table
          /\ clone_seen' = [clone_seen EXCEPT ![p] = @ \cup
                                {[exc |-> r.exc, command_edit |-> r.command_edit,
                                  loadshape |-> r.loadshape]}]
    /\ clone_calls' = clone_calls + 1
    /\ UNCHANGED clone_pairs
    /\ UNCHANGED not_clone

(***************************************************************************)
(* The functions main calls, each as one call: [exc, ...].                 *)
(***************************************************************************)
\* random_states = [rng.integers(...) for _ in range(n)]: st is
\* [rng, random_states].
RECURSIVE draw_random_states(_, _)
draw_random_states(st, n) ==
    IF n = 0 THEN st
    ELSE LET drawn == draw_random_state(st.rng)
         IN draw_random_states([rng |-> drawn.rng,
                                random_states |-> Append(st.random_states, drawn.value)],
                               n - 1)

\* loadshape_tuples = [prototype.clone(...) for ... in zip(loads,
\* random_states)]: st is [exc, loadshape_tuples, state].
RECURSIVE clone_loop(_, _, _, _, _)
clone_loop(st, table, loads, seeds, k) ==
    IF k > Min(Len(loads), Len(seeds)) \/ st.exc # "none" THEN st
    ELSE LET after(r) ==
                IF r.exc # "none"
                THEN [st EXCEPT !.exc = r.exc, !.state = r.state]
                ELSE clone_loop([exc |-> "none",
                                 loadshape_tuples |-> Append(st.loadshape_tuples,
                                                             <<r.command_edit, r.loadshape>>),
                                 state |-> r.state],
                                r.table, loads, seeds, k + 1)
         IN after(clone(table, loads[k], seeds[k], st.state))

make_ercot_iqr_random_loadshapes(table, loads, rng, state) ==
    LET returned(seeds, cloned) ==
            [exc |-> cloned.exc,
             edit_commands |-> [k \in DOMAIN cloned.loadshape_tuples |->
                                    cloned.loadshape_tuples[k][1]],
             loadshapes    |-> [k \in DOMAIN cloned.loadshape_tuples |->
                                    cloned.loadshape_tuples[k][2]],
             random_states |-> seeds.random_states,
             rng           |-> seeds.rng,
             state         |-> cloned.state]
        cloning(seeds) ==
            returned(seeds,
                     clone_loop([exc |-> "none", loadshape_tuples |-> <<>>, state |-> state],
                                table, loads, seeds.random_states, 1))
    IN cloning(draw_random_states([rng |-> rng, random_states |-> <<>>], Len(loads)))

\* The loop of make_load_voltage_magnitude_data: st is [exc, data, active].
RECURSIVE load_loop(_, _, _, _, _)
load_loop(st, loads, monitors, header, k) ==
    IF k > Min(Len(loads), Len(monitors)) \/ st.exc # "none" THEN st
    ELSE LET data_md == make_data(monitors[k], header, st.active)
             body    == LoadLoopBody(st.data, loads[k], data_md)
         IN load_loop([exc |-> body.exc, data |-> body.data,
                       active |-> make_data_select(monitors[k], st.active)],
                      loads, monitors, header, k + 1)

make_load_voltage_magnitude_data(loads, monitors, header, active) ==
    LET looped == load_loop([exc |-> "none", data |-> <<>>, active |-> active],
                            loads, monitors, header, 1)
        mapped == MakeChannelMap(dict_keys(looped.data))
    IN [exc |-> IF looped.exc # "none" THEN looped.exc ELSE mapped.exc,
        data_df |-> looped.data, channel_map |-> mapped.channel_map,
        active |-> looped.active]

\* The loop of make_transformer_voltage_magnitude_data.
RECURSIVE transformer_loop(_, _, _, _, _, _)
transformer_loop(st, monitors_primary, monitors_secondary, transformers, header, k) ==
    IF k > Min(Min(Len(monitors_primary), Len(monitors_secondary)), Len(transformers))
       \/ st.exc # "none"
    THEN st
    ELSE LET primary_md   == make_data(monitors_primary[k], header, st.active)
             active1      == make_data_select(monitors_primary[k], st.active)
             secondary_md == make_data(monitors_secondary[k], header, active1)
             body == TransformerLoopBody(st.data, transformers[k], primary_md, secondary_md)
         IN transformer_loop([exc |-> body.exc, data |-> body.data,
                              active |-> make_data_select(monitors_secondary[k], active1)],
                             monitors_primary, monitors_secondary, transformers, header,
                             k + 1)

make_transformer_voltage_magnitude_data(primary, secondary, transformers, header, active) ==
    LET looped == transformer_loop([exc |-> "none", data |-> <<>>, active |-> active],
                                   primary, secondary, transformers, header, 1)
    IN [exc |-> looped.exc, data_df |-> looped.data, active |-> looped.active]

\* data_factory.make_loadshape_data: pd.DataFrame(data) refuses columns of
\* different lengths.
RECURSIVE loadshape_loop(_, _, _)
loadshape_loop(data, loadshapes, k) ==
    IF k > Len(loadshapes) THEN data
    ELSE loadshape_loop(dict_set(data, NameObject(loadshapes[k].name), loadshapes[k].values),
                        loadshapes, k + 1)

make_loadshape_data(loadshapes) ==
    LET data == loadshape_loop(<<>>, loadshapes, 1)
    IN [exc |-> IF \E i, j \in DOMAIN data : Len(data[i].value) # Len(data[j].value)
                THEN "ValueError" ELSE "none",
        data_df |-> data]

\* zip(loads, loadshapes, random_states): its length is that of the shortest.
zip_length(loads, loadshapes, seeds) == Min(Min(Len(loads), Len(loadshapes)), Len(seeds))

\* A variant that records the seeds from the last to the first.
make_load_labels_seeds_reversed(loads, loadshapes, seeds) ==
    [exc |-> "none",
     labels_df |->
        [k \in 1..zip_length(loads, loadshapes, seeds[1]) |->
            [load_name      |-> NameObject(loads[k].name),
             loadshape_name |-> NameObject(loadshapes[k].name),
             meter_count    |-> loads[k].meter_count,
             phase_name     |-> loads[k].phase,
             profile_name   |-> loadshapes[k].profile_name,
             random_state   |-> seeds[1][Len(seeds[1]) + 1 - k]]]]

\* label_factory.make_load_labels: one row per element of the zip.  The
\* argument random_states (seeds) is <<>> for None and <<list>> for a list; None is
\* not iterable.
make_load_labels(loads, loadshapes, seeds) ==
    IF seeds = <<>>
    THEN [exc |-> "TypeError", labels_df |-> <<>>]
    ELSE [exc |-> "none",
          labels_df |->
            [k \in 1..zip_length(loads, loadshapes, seeds[1]) |->
                [load_name      |-> NameObject(loads[k].name),
                 loadshape_name |-> NameObject(loadshapes[k].name),
                 meter_count    |-> loads[k].meter_count,
                 phase_name     |-> loads[k].phase,
                 profile_name   |-> loadshapes[k].profile_name,
                 random_state   |-> seeds[1][k]]]]

\* Monitor.command_add and LoadShape.command_add, by their parts.
MonitorCommandAdd(monitor, target_object, terminal) ==
    [verb |-> "new", object |-> NameObject(monitor.name),
     element |-> NameObject(target_object.name), terminal |-> terminal]

LoadShapeCommandAdd(loadshape) ==
    [verb |-> "new", object |-> NameObject(loadshape.name), npts |-> Len(loadshape.values)]

(***************************************************************************)
(* run.main: the loop over parameters_list, one step per stage of its body.*)
(***************************************************************************)
NumCircuits == 2

CircuitNames == <<"ckt5", "lvna">>

TransformerNames == <<(<<(<<"MDV_SUB_1">>)>>), (<<(<<"1">>), (<<"2">>)>>)>>

\* What a circuit file may hold.
MainPhases == {"A", "ABC"}

MainLoadHeaders ==
    {<<<<" ", "V1">>, <<" ", "VAngle1">>, <<" ", "V2">>, <<" ", "VAngle2">>,
       <<" ", "V3">>, <<" ", "VAngle3">>>>,
     <<<<" ", "V1">>, <<" ", "VAngle1">>>>}

NoLocals ==
    [loads |-> <<>>, transformers |-> <<>>, load_monitors |-> <<>>,
     transformer_monitors_primary |-> <<>>, transformer_monitors_secondary |-> <<>>,
     rng |-> <<>>, edit_commands |-> <<>>, loadshapes |-> <<>>, random_states |-> <<>>,
     n_timestep |-> 0, data_df |-> <<>>, channel_map |-> <<>>, loadshape_df |-> <<>>,
     labels_df |-> <<>>, sub_data_df |-> <<>>]

NoCircuit ==
    [loads |-> <<>>, load_header |-> <<>>, transformer_header |-> <<>>,
     commands |-> <<>>, solved |-> FALSE, active |-> <<>>]

MainStart ==
    /\ main_pc = "load_circuit"
    /\ main_i = 1
    /\ main_w = 0
    /\ \E seeds \in [1..NumCircuits -> 0..MaxSeed] :
            parameters_list = [c \in 1..NumCircuits |->
                                [circuit_name |-> CircuitNames[c],
                                 random_state |-> seeds[c],
                                 transformer_names |-> TransformerNames[c]]]
    /\ dss = NoCircuit
    /\ main_locals = NoLocals
    /\ files = {}
    /\ main_exc = "none"
    /\ main_history = <<>>
    /\ main_built = {}

parameters == parameters_list[main_i]

\* The header the engine reports for each monitor main made.
MainHeader ==
    LET of_loads == {main_locals.load_monitors[k].name.element :
                        k \in DOMAIN main_locals.load_monitors}
        of_transformers ==
            {main_locals.transformer_monitors_primary[k].name.element :
                k \in DOMAIN main_locals.transformer_monitors_primary}
            \cup {main_locals.transformer_monitors_secondary[k].name.element :
                    k \in DOMAIN main_locals.transformer_monitors_secondary}
    IN [m \in of_loads \cup of_transformers |->
            IF m \in of_loads THEN dss.load_header ELSE dss.transformer_header]

\* A variant that writes before the transformer table is built.
MainStagesWriteEarly ==
    <<"load_circuit", "make_objects", "make_loadshapes", "add_commands", "solve",
      "make_load_data", "make_loadshape_data", "make_labels", "write",
      "make_transformer_data">>

\* The stages of the loop body, in the order of the source.
MainStages ==
    <<"load_circuit", "make_objects", "make_loadshapes", "add_commands", "solve",
      "make_load_data", "make_loadshape_data", "make_labels", "make_transformer_data",
      "write">>

\* Control after a stage: the next stage, after the last one the next
\* parameters, after the last parameters the end of main.
MainAdvance(stage) ==
    LET k == PositionIn(MainStages, stage)
    IN IF k < Len(MainStages)
       THEN main_pc' = MainStages[k + 1] /\ UNCHANGED main_i
       ELSE IF main_i < Len(parameters_list)
            THEN main_pc' = MainStages[1] /\ main_i' = main_i + 1
            ELSE main_pc' = "done" /\ UNCHANGED main_i

\* An uncaught exception ends main.
MainRaise(exc) ==
    /\ main_pc' = "raised"
    /\ main_exc' = exc
    /\ UNCHANGED main_i

\* "clearall" and "redirect (sourcepath)": the engine holds the circuit of
\* the file, whatever that is.
MainLoadCircuit ==
    /\ main_pc = "load_circuit"
    /\ \E phases \in SeqsUpTo(MainPhases, MaxLoads) :
       \E load_header \in MainLoadHeaders :
       \E transformer_header \in TransformerHeaders :
            dss' = [loads |-> [k \in DOMAIN phases |->
                                [element |-> LoadElement(k), phase |-> phases[k]]],
                    load_header |-> load_header,
                    transformer_header |-> transformer_header,
                    commands |-> <<>>, solved |-> FALSE, active |-> <<>>]
    /\ MainAdvance("load_circuit")
    /\ UNCHANGED <<main_w, parameters_list, main_locals, files, main_exc,
                   main_history>>
    /\ main_built' = {}
    /\ UNCHANGED lib_vars
    /\ UNCHANGED not_main

MainMakeObjects ==
    /\ main_pc = "make_objects"
    /\ LET loads == [k \in DOMAIN dss.loads |->
                        Load(dss.loads[k].element, dss.loads[k].phase)]
           transformers == [k \in DOMAIN parameters.transformer_names |->
                                Transformer(parameters.transformer_names[k])]
       IN main_locals' =
            [main_locals EXCEPT
                !.loads = loads,
                !.transformers = transformers,
                !.load_monitors = [k \in DOMAIN loads |-> Monitor(loads[k], "1")],
                !.transformer_monitors_primary =
                    [k \in DOMAIN transformers |-> Monitor(transformers[k], "1")],
                !.transformer_monitors_secondary =
                    [k \in DOMAIN transformers |-> Monitor(transformers[k], "2")]]
    /\ MainAdvance("make_objects")
    /\ UNCHANGED <<main_w, parameters_list, dss, files, main_exc, main_history>>
    /\ UNCHANGED main_built
    /\ UNCHANGED lib_vars
    /\ UNCHANGED not_main

\* A variant in which the generator is made once and kept for the session.
MainRngKept(random_state, previous) ==
    IF previous = <<>> THEN default_rng(random_state) ELSE previous

\* rng = np.random.default_rng(seed=parameters.random_state); `previous` is
\* what the name rng was bound to before.
MainRng(random_state, previous) == default_rng(random_state)

MainMakeLoadshapes ==
    /\ main_pc = "make_loadshapes"
    /\ \E r \in {make_ercot_iqr_random_loadshapes(
                        profiles_df, main_locals.loads,
                        MainRng(parameters.random_state, main_locals.rng),
                        norm_random_state)} :
          /\ norm_random_state' = r.state
          /\ IF r.exc # "none"
             THEN /\ MainRaise(r.exc)
                  /\ UNCHANGED main_built
                  /\ main_locals' = [main_locals EXCEPT !.rng = r.rng]
                  /\ UNCHANGED main_history
             ELSE /\ MainAdvance("make_loadshapes")
                  /\ main_locals' = [main_locals EXCEPT
                                        !.rng = r.rng,
                                        !.edit_commands = r.edit_commands,
                                        !.loadshapes = r.loadshapes,
                                        !.random_states = r.random_states]
                  /\ main_history' = Append(main_history,
                                            [random_state  |-> parameters.random_state,
                                             n_loads       |-> Len(main_locals.loads),
                                             random_states |-> r.random_states])
                  /\ UNCHANGED main_exc
                  /\ main_built' = main_built \cup {"loadshapes"}
    /\ UNCHANGED <<main_w, parameters_list, dss, files, profiles_df>>
    /\ UNCHANGED not_main

\* A variant that binds the loads to their loadshapes before the loadshapes
\* are added.
MainAddCommandsEditFirst ==
    /\ main_pc = "add_commands"
    /\ LET L == main_locals
           monitor_adds(monitors, targets, terminal) ==
               [k \in DOMAIN monitors |->
                    MonitorCommandAdd(monitors[k], targets[k], terminal)]
       IN dss' = [dss EXCEPT !.commands =
                    @ \o monitor_adds(L.load_monitors, L.loads, "1")
                      \o monitor_adds(L.transformer_monitors_primary, L.transformers, "1")
                      \o monitor_adds(L.transformer_monitors_secondary, L.transformers, "2")
                      \o [k \in DOMAIN L.edit_commands |->
                            [verb |-> "edit", text |-> L.edit_commands[k]]]
                      \o [k \in DOMAIN L.loadshapes |-> LoadShapeCommandAdd(L.loadshapes[k])]]
    /\ MainAdvance("add_commands")
    /\ UNCHANGED <<main_w, parameters_list, main_locals, files, main_exc,
                   main_history>>
    /\ UNCHANGED main_built
    /\ UNCHANGED lib_vars
    /\ UNCHANGED not_main

\* Lines 119 to 130: the add-commands of the monitors and of the loadshapes,
\* then the edit-commands.
MainAddCommands ==
    /\ main_pc = "add_commands"
    /\ LET L == main_locals
           monitor_adds(monitors, targets, terminal) ==
               [k \in DOMAIN monitors |->
                    MonitorCommandAdd(monitors[k], targets[k], terminal)]
       IN dss' = [dss EXCEPT !.commands =
                    @ \o monitor_adds(L.load_monitors, L.loads, "1")
                      \o monitor_adds(L.transformer_monitors_primary, L.transformers, "1")
                      \o monitor_adds(L.transformer_monitors_secondary, L.transformers, "2")
                      \o [k \in DOMAIN L.loadshapes |-> LoadShapeCommandAdd(L.loadshapes[k])]
                      \o [k \in DOMAIN L.edit_commands |->
                            [verb |-> "edit", text |-> L.edit_commands[k]]]]
    /\ MainAdvance("add_commands")
    /\ UNCHANGED <<main_w, parameters_list, main_locals, files, main_exc,
                   main_history>>
    /\ UNCHANGED main_built
    /\ UNCHANGED lib_vars
    /\ UNCHANGED not_main

\* n_timestep = len(loadshapes[0].values), the "set" command and "solve".
MainSolve ==
    /\ main_pc = "solve"
    /\ IF main_locals.loadshapes = <<>>
       THEN /\ MainRaise("IndexError")
            /\ UNCHANGED <<dss, main_locals>>
       ELSE LET n_timestep == Len(main_locals.loadshapes[1].values)
            IN /\ main_locals' = [main_locals EXCEPT !.n_timestep = n_timestep]
               /\ dss' = [dss EXCEPT
                            !.commands = @ \o <<[verb |-> "set", mode |-> Recurrence,
                                                 number |-> n_timestep],
                                                [verb |-> "solve"]>>,
                            !.solved = TRUE]
               /\ MainAdvance("solve")
               /\ UNCHANGED main_exc
    /\ UNCHANGED <<main_w, parameters_list, files, main_history>>
    /\ UNCHANGED main_built
    /\ UNCHANGED lib_vars
    /\ UNCHANGED not_main

MainMakeLoadData ==
    /\ main_pc = "make_load_data"
    /\ LET r == make_load_voltage_magnitude_data(main_locals.loads, main_locals.load_monitors,
                                                 MainHeader, dss.active)
       IN /\ dss' = [dss EXCEPT !.active = r.active]
          /\ IF r.exc # "none"
             THEN /\ MainRaise(r.exc)
                  /\ UNCHANGED main_built
                  /\ UNCHANGED main_locals
             ELSE /\ main_locals' = [main_locals EXCEPT !.data_df = r.data_df,
                                                        !.channel_map = r.channel_map]
                  /\ MainAdvance("make_load_data")
                  /\ UNCHANGED main_exc
                  /\ main_built' = main_built \cup {"data_df"}
    /\ UNCHANGED <<main_w, parameters_list, files, main_history>>
    /\ UNCHANGED lib_vars
    /\ UNCHANGED not_main

MainMakeLoadshapeData ==
    /\ main_pc = "make_loadshape_data"
    /\ LET r == make_loadshape_data(main_locals.loadshapes)
       IN IF r.exc # "none"
          THEN /\ MainRaise(r.exc)
               /\ UNCHANGED main_built
               /\ UNCHANGED main_locals
          ELSE /\ main_locals' = [main_locals EXCEPT !.loadshape_df = r.data_df]
               /\ MainAdvance("make_loadshape_data")
               /\ UNCHANGED main_exc
               /\ main_built' = main_built \cup {"loadshape_df"}
    /\ UNCHANGED <<main_w, parameters_list, dss, files, main_history>>
    /\ UNCHANGED lib_vars
    /\ UNCHANGED not_main

MainMakeLabels ==
    /\ main_pc = "make_labels"
    /\ LET r == make_load_labels(main_locals.loads, main_locals.loadshapes,
                                 <<main_locals.random_states>>)
       IN /\ main_locals' = [main_locals EXCEPT !.labels_df = r.labels_df]
          /\ MainAdvance("make_labels")
    /\ UNCHANGED <<main_w, parameters_list, dss, files, main_exc, main_history>>
    /\ main_built' = main_built \cup {"labels_df"}
    /\ UNCHANGED lib_vars
    /\ UNCHANGED not_main

MainMakeTransformerData ==
    /\ main_pc = "make_transformer_data"
    /\ LET r == make_transformer_voltage_magnitude_data(
                    main_locals.transformer_monitors_primary,
                    main_locals.transformer_monitors_secondary,
                    main_locals.transformers, MainHeader, dss.active)
       IN /\ dss' = [dss EXCEPT !.active = r.active]
          /\ IF r.exc # "none"
             THEN /\ MainRaise(r.exc)
                  /\ UNCHANGED main_built
                  /\ UNCHANGED main_locals
             ELSE /\ main_locals' = [main_locals EXCEPT !.sub_data_df = r.data_df]
                  /\ MainAdvance("make_transformer_data")
                  /\ UNCHANGED main_exc
                  /\ main_built' = main_built \cup {"sub_data_df"}
    /\ UNCHANGED <<main_w, parameters_list, files, main_history>>
    /\ UNCHANGED lib_vars
    /\ UNCHANGED not_main

\* The five destinations of a circuit, in the order main writes them.
Artifacts ==
    <<"load-voltage_magnitudes-raw.feather", "labels.feather", "loadshapes.feather",
      "transformer-voltage_magnitudes-raw.feather", "channel_map-load.json">>

\* One write; after the last one the loop goes on to the next parameters,
\* or main ends.
MainWrite ==
    /\ main_pc = "write"
    /\ main_w < Len(Artifacts)
    /\ files' = files \cup {<<parameters.circuit_name, Artifacts[main_w + 1]>>}
    /\ IF main_w + 1 < Len(Artifacts)
       THEN /\ main_w' = main_w + 1
            /\ UNCHANGED <<main_pc, main_i>>
       ELSE /\ main_w' = 0
            /\ MainAdvance("write")
    /\ UNCHANGED <<parameters_list, dss, main_locals, main_exc, main_history, main_built>>
    /\ UNCHANGED lib_vars
    /\ UNCHANGED not_main

(***************************************************************************)
(* One clone call of a prototype made with any mapping, any profile table  *)
(* and any n_interpolate.                                                  *)
(***************************************************************************)
\* The table cut to its first n rows.
RowsTable(n) == [name \in AllProfileNames |-> list_prefix(FullTable[name], n)]

ProtoTables ==
    {RowsTable(n) : n \in 0..Len(ProfileShapes[1])}
    \cup {TableWithout({"BUSHILF_SCENT", "BUSMEDPV_SCENT", "RESLOWR_SCENT"})}

\* The factory's mapping, one without a key, one with an empty pool.
ProtoMappings ==
    {FactoryMapping,
     [phase \in Phases \ {"ABC", "B"} |-> phase_profile_mapping(phase)],
     [phase \in Phases |-> IF phase \in {"AB", "C"} THEN <<>>
                           ELSE phase_profile_mapping(phase)]}

ProtoStart ==
    /\ proto_pc = "start"
    /\ proto_self \in [phase_profile_mapping : ProtoMappings,
                       n_interpolate : {<<>>} \cup {<<n>> : n \in 0..MaxInterpolate}]
    /\ proto_kwargs \in [load : {Load(LoadElement(1), phase) : phase \in Phases},
                         random_state : 0..MaxSeed]
    /\ proto_result = <<>>
    /\ profiles_df \in ProtoTables
    /\ norm_random_state = default_rng(0)

ProtoClone ==
    /\ proto_pc = "start"
    /\ \E r \in {prototype_clone(proto_self.phase_profile_mapping, profiles_df,
                                 proto_self.n_interpolate, proto_kwargs.load,
                                 proto_kwargs.random_state, norm_random_state)} :
          /\ norm_random_state' = r.state
          /\ profiles_df' = r.table
          /\ proto_result' = [exc |-> r.exc, command_edit |-> r.command_edit,
                              loadshape |-> r.loadshape]
          /\ proto_pc' = IF r.exc = "none" THEN "returned" ELSE "raised"
    /\ UNCHANGED <<proto_self, proto_kwargs>>
    /\ UNCHANGED not_proto

(***************************************************************************)
(* The specifications: each runs one component and leaves the others off.  *)
(***************************************************************************)
AggOff ==
    /\ agg_mode = "off" /\ agg_pc = "off" /\ agg_entities = <<>>
    /\ agg_monitors = <<>> /\ engine_header = <<>> /\ active_monitor = <<>>
    /\ agg_i = 0 /\ agg_data = <<>> /\ agg_result = <<>> /\ agg_exc = "none"
    /\ agg_md = <<>>

ShapeOff ==
    /\ shape_pc = "off" /\ shape_values = <<>> /\ shape_n = <<>>
    /\ shape_self = <<>> /\ shape_pre = <<>> /\ shape_exc = "none" /\ shape_at = <<>>

FacOff ==
    /\ fac_pc = "off" /\ fac_loads = <<>> /\ fac_seed = 0 /\ fac_rng = default_rng(0)
    /\ random_states = <<>> /\ loadshape_tuples = <<>> /\ fac_result = <<>>
    /\ fac_exc = "none" /\ fac_log = <<>>

LibOff == profiles_df = <<>> /\ norm_random_state = default_rng(0)

CloneOff == clone_pairs = <<>> /\ clone_seen = <<>> /\ clone_calls = 0

ProtoOff ==
    proto_pc = "off" /\ proto_self = <<>> /\ proto_kwargs = <<>> /\ proto_result = <<>>

LabOff == lab_pc = "off" /\ lab_args = <<>> /\ lab_result = <<>>

LoadOff == load_pc = "off" /\ load_engine = <<>> /\ load_self = <<>>

MainOff ==
    /\ main_pc = "off" /\ main_i = 0 /\ main_w = 0 /\ parameters_list = <<>>
    /\ dss = NoCircuit /\ main_locals = NoLocals /\ files = {} /\ main_exc = "none"
    /\ main_history = <<>> /\ main_built = {}

AggInit ==
    /\ AggStart /\ ShapeOff /\ FacOff /\ LibOff /\ CloneOff /\ MainOff /\ ProtoOff
    /\ LabOff /\ LoadOff

AggNext ==
    \/ AggLoadStep
    \/ AggLoadFinish
    \/ AggTransformerStep
    \/ AggTransformerFinish

SpecAgg == AggInit /\ [][AggNext]_vars

ShapeInit ==
    /\ ShapeStart /\ AggOff /\ FacOff /\ LibOff /\ CloneOff /\ MainOff /\ ProtoOff
    /\ LabOff /\ LoadOff

ShapeNext ==
    \/ ShapeResample
    \/ ShapeScale

SpecShape == ShapeInit /\ [][ShapeNext]_vars

FacInit ==
    /\ FacStart /\ LibStart /\ AggOff /\ ShapeOff /\ CloneOff /\ MainOff /\ ProtoOff
    /\ LabOff /\ LoadOff

FacNext ==
    \/ FacDrawStep
    \/ FacCloneStep
    \/ FacReturn

SpecFactory == FacInit /\ [][FacNext]_vars

CloneInit ==
    /\ CloneStart /\ LibStart /\ AggOff /\ ShapeOff /\ FacOff /\ MainOff /\ ProtoOff
    /\ LabOff /\ LoadOff

CloneNext == \E p \in PairIds : CloneCall(p)

SpecClone == CloneInit /\ [][CloneNext]_vars

Init ==
    /\ MainStart /\ LibStart /\ AggOff /\ ShapeOff /\ FacOff /\ CloneOff /\ ProtoOff
    /\ LabOff /\ LoadOff

Next ==
    \/ MainLoadCircuit
    \/ MainMakeObjects
    \/ MainMakeLoadshapes
    \/ MainAddCommands
    \/ MainSolve
    \/ MainMakeLoadData
    \/ MainMakeLoadshapeData
    \/ MainMakeLabels
    \/ MainMakeTransformerData
    \/ MainWrite

Spec == Init /\ [][Next]_vars

ProtoInit ==
    /\ ProtoStart /\ AggOff /\ ShapeOff /\ FacOff /\ CloneOff /\ MainOff
    /\ LabOff /\ LoadOff

ProtoNext == ProtoClone

SpecPrototype == ProtoInit /\ [][ProtoNext]_vars

(***************************************************************************)
(* label_factory.make_load_labels called on its own, with lists of any     *)
(* lengths.                                                                *)
(***************************************************************************)
LabPhases == {"A", "ABC"}

LabProfiles == {"BUSHILF_SCENT", "RESLOWR_SCENT"}

LabSeeds == {0, Int32Max - 1}

\* A loadshape as clone makes it for the k-th load, its values left out.
LabLoadShape(k, profile_name) ==
    [name |-> Name("loadshape", <<"load_">> \o LoadElement(k) \o <<"_", profile_name>>),
     profile_name |-> profile_name, recurrence |-> Recurrence, values |-> <<>>]

LabStart ==
    /\ lab_pc = "start"
    /\ \E phases \in SeqsUpTo(LabPhases, MaxLoads) :
         \E profile_names \in SeqsUpTo(LabProfiles, MaxLoads) :
            \E seeds \in {<<>>} \cup {<<list>> : list \in SeqsUpTo(LabSeeds, MaxLoads)} :
                lab_args =
                    [loads |-> [k \in DOMAIN phases |-> Load(LoadElement(k), phases[k])],
                     loadshapes |-> [k \in DOMAIN profile_names |->
                                        LabLoadShape(k, profile_names[k])],
                     random_states |-> seeds]
    /\ lab_result = <<>>

LabCall ==
    /\ lab_pc = "start"
    /\ \E r \in {make_load_labels(lab_args.loads, lab_args.loadshapes,
                                  lab_args.random_states)} :
            /\ lab_pc' = IF r.exc = "none" THEN "returned" ELSE "raised"
            /\ lab_result' = r
    /\ UNCHANGED lab_args
    /\ UNCHANGED not_lab

LabInit ==
    /\ LabStart /\ AggOff /\ ShapeOff /\ FacOff /\ LibOff /\ CloneOff /\ MainOff /\ ProtoOff
    /\ LoadOff

LabNext == LabCall

SpecLabels == LabInit /\ [][LabNext]_vars

(***************************************************************************)
(* dss_load.Load.__init__ with its mixins: the connection and the phase    *)
(* are read from the engine (dss_connection.py, dss_phase.py).  A property *)
(* string is a sequence of characters; bus1 is a sequence of tokens, the   *)
(* bus name, "." and the terminals.                                        *)
(***************************************************************************)
\* chr.lower() for the letters the inputs use.
chr_lower(c) ==
    CASE c = "W" -> "w" [] c = "Y" -> "y" [] c = "E" -> "e" [] c = "L" -> "l"
      [] c = "N" -> "n" [] c = "D" -> "d" [] c = "T" -> "t" [] c = "A" -> "a"
      [] OTHER -> c

\* a_string.lower()
str_lower(a_string) == [i \in DOMAIN a_string |-> chr_lower(a_string[i])]

valid_wyes == <<(<<"w", "y", "e">>), (<<"y">>), (<<"l", "n">>)>>

valid_deltas == <<(<<"d", "e", "l", "t", "a">>), (<<"d">>), (<<"l", "l">>)>>

\* A variant that takes an unknown connection for a wye.
string_to_connection_default(a_string) ==
    IF str_lower(a_string) \in Range(valid_deltas)
    THEN [exc |-> "none", connection |-> "DELTA"]
    ELSE [exc |-> "none", connection |-> "WYE"]

\* dss_connection.string_to_connection: [exc, connection].
string_to_connection(a_string) ==
    IF str_lower(a_string) \in Range(valid_wyes)
    THEN [exc |-> "none", connection |-> "WYE"]
    ELSE IF str_lower(a_string) \in Range(valid_deltas)
    THEN [exc |-> "none", connection |-> "DELTA"]
    ELSE [exc |-> "KeyError", connection |-> <<>>]

Digits == <<"0", "1", "2", "3", "4", "5", "6", "7", "8", "9">>

\* int(x, base=10) of a piece of bus1: [exc, value].
int_base10(x) ==
    IF Len(x) = 1 /\ x[1] \in Range(Digits)
    THEN [exc |-> "none", value |-> PositionIn(Digits, x[1]) - 1]
    ELSE [exc |-> "ValueError", value |-> 0]

\* phase_mapping of object_name_to_phase, as its lists of keys and values.
terminal_phases == <<"A", "B", "C", "AB", "AC", "BC">>

terminal_sets == <<{1}, {2}, {3}, {1, 2}, {1, 3}, {2, 3}>>

\* dss_phase.object_name_to_phase: [exc, phase].
object_name_to_phase(phase_count, bus1) ==
    IF phase_count = 3 THEN [exc |-> "none", phase |-> "ABC"]
    ELSE LET substrings == Tail(str_split(bus1, "."))
             terminals  == {int_base10(substrings[i]).value : i \in DOMAIN substrings}
             index      == list_index(terminal_sets, terminals)
         IN IF \E i \in DOMAIN substrings : int_base10(substrings[i]).exc # "none"
            THEN [exc |-> "ValueError", phase |-> <<>>]
            ELSE IF index = 0
            THEN [exc |-> "ValueError", phase |-> <<>>]
            ELSE [exc |-> "none", phase |-> terminal_phases[index]]

\* Load.__init__(dss, name) for the engine's answers `engine`: [exc, object];
\* the object exists only when no step raised.
Load_init(element, engine) ==
    LET connection == string_to_connection(engine.conn)
        phase      == object_name_to_phase(engine.phases, engine.bus1)
    IN IF connection.exc # "none" THEN [exc |-> connection.exc, object |-> <<>>]
       ELSE IF phase.exc # "none" THEN [exc |-> phase.exc, object |-> <<>>]
       ELSE [exc |-> "none",
             object |-> [name |-> Load(element, phase.phase).name,
                         connection |-> connection.connection,
                         phase |-> phase.phase,
                         phase_count |-> engine.phases,
                         meter_count |-> Load(element, phase.phase).meter_count]]

ConnStrings ==
    {<<"w", "y", "e">>, <<"W", "Y", "E">>, <<"Y">>, <<"l", "n">>, <<"D", "e", "l", "t", "a">>,
     <<"d">>, <<"L", "L">>, <<"s", "t", "a", "r">>, <<>>, <<"w", "y", "e", " ">>}

Bus1Strings ==
    {<<"bus">>, <<"bus", ".", "1">>, <<"bus", ".", "2">>, <<"bus", ".", "3">>,
     <<"bus", ".", "1", ".", "2">>, <<"bus", ".", "2", ".", "1">>,
     <<"bus", ".", "1", ".", "3">>, <<"bus", ".", "2", ".", "3">>,
     <<"bus", ".", "1", ".", "2", ".", "3">>, <<"bus", ".", "0">>,
     <<"bus", ".", "1", ".", "0">>, <<"bus", ".", "4">>, <<"bus", ".", "1", ".", "1">>,
     <<"bus", ".", ".", "1">>, <<"bus", ".", "a">>}

LoadStart ==
    /\ load_pc = "start"
    /\ load_engine \in [conn : ConnStrings, phases : {1, 2, 3}, bus1 : Bus1Strings]
    /\ load_self = <<>>

LoadConstruct ==
    /\ load_pc = "start"
    /\ \E r \in {Load_init(LoadElement(1), load_engine)} :
            /\ load_pc' = IF r.exc = "none" THEN "constructed" ELSE "raised"
            /\ load_self' = r
    /\ UNCHANGED load_engine
    /\ UNCHANGED not_load

LoadInit ==
    /\ LoadStart /\ AggOff /\ ShapeOff /\ FacOff /\ LibOff /\ CloneOff /\ MainOff /\ ProtoOff
    /\ LabOff

LoadNext == LoadConstruct

SpecLoad == LoadInit /\ [][LoadNext]_vars

(***************************************************************************)
(* Properties of the loadshape constructor.                                *)
(***************************************************************************)
IsConstant(xs) == \A i, j \in DOMAIN xs : xs[i] = xs[j]

InUnitInterval(x) == x.den > 0 /\ 0 <= x.num /\ x.num <= x.den

IsZero(x) == x.den > 0 /\ x.num = 0

IsOne(x) == x.den > 0 /\ x.num = x.den

\* The stored values lie in [0,1], hold 0 where `series` has its minimum and
\* 1 where it has its maximum.
ScaledOnto(series) ==
    /\ Len(shape_self) = Len(series)
    /\ \A i \in DOMAIN shape_self : InUnitInterval(shape_self[i])
    /\ \E i \in DOMAIN shape_self :
            /\ IsZero(shape_self[i])
            /\ \A j \in DOMAIN series : series[i].num <= series[j].num
    /\ \E i \in DOMAIN shape_self :
            /\ IsOne(shape_self[i])
            /\ \A j \in DOMAIN series : series[i].num >= series[j].num

\* C2 as stated: a LoadShape built from a non-constant value series, with or
\* without resampling, stores values in [0,1] with a 0 and a 1.
C2_Original ==
    shape_pc = "done" /\ ~IsConstant(shape_values) =>
        /\ \A i \in DOMAIN shape_self : InUnitInterval(shape_self[i])
        /\ \E i \in DOMAIN shape_self : IsZero(shape_self[i])
        /\ \E i \in DOMAIN shape_self : IsOne(shape_self[i])

\* C2, amended: a LoadShape whose series is non-constant when it is scaled
\* (the values, or the resampled values when n_interpolate is given) stores
\* values in [0,1], with 0 at the position of that series' minimum and 1 at
\* the position of its maximum.
C2_NormalizationBound ==
    shape_pc = "done" /\ ~IsConstant(shape_pre) => ScaledOnto(shape_pre)

\* A resampled, non-constant series whose minimum is not 0 was scaled.
C2_Witness ==
    /\ shape_pc = "done" /\ ~IsConstant(shape_pre)
    /\ shape_n # <<>> /\ shape_n[1] # Len(shape_values)
    /\ \A i \in DOMAIN shape_pre : shape_pre[i].num > 0
    /\ \E i \in DOMAIN shape_self : ~IsZero(shape_self[i]) /\ ~IsOne(shape_self[i])

(***************************************************************************)
(* Properties of the aggregator.                                           *)
(***************************************************************************)
AggReturned(mode) == agg_mode = mode /\ agg_pc = "returned"

AggColumns == dict_keys(agg_result.data_df)

AggDistinctNames ==
    \A i, j \in DOMAIN agg_entities :
        i # j => agg_entities[i].name.element # agg_entities[j].name.element

IsPrefix(p, s) == Len(p) <= Len(s) /\ SubSeq(s, 1, Len(p)) = p

\* The channel names monitor i of the input reports, spaces removed.
ReportedNames(i, k) ==
    {str_strip_spaces(h) : h \in Range(engine_header[agg_monitors[i][k].name.element])}

\* Load i's monitor lacks one of the first meter_count names of V1, V2, V3.
LacksChannel(i) ==
    \E c \in 1..agg_entities[i].meter_count : VoltageChannels[c] \notin ReportedNames(i, 1)

\* C1: when make_load_voltage_magnitude_data returns, the channel_map
\* partitions the table's columns: every column index 0..ncols-1 occurs at
\* exactly one place of exactly one entity's index list, and the lists hold
\* nothing but column indices.
C1_ChannelMapPartition ==
    AggReturned("load") =>
        LET cm    == agg_result.channel_map
            ncols == Len(AggColumns)
            places(c) == {<<k, j>> \in (DOMAIN cm) \X (1..ncols) :
                            j \in DOMAIN cm[k].value /\ cm[k].value[j] = c}
        IN /\ \A c \in 0..(ncols - 1) : Cardinality(places(c)) = 1
           /\ \A k \in DOMAIN cm :
                /\ Len(cm[k].value) <= ncols
                /\ \A j \in DOMAIN cm[k].value : cm[k].value[j] \in 0..(ncols - 1)
           /\ \A k1, k2 \in DOMAIN cm : k1 # k2 => cm[k1].key # cm[k2].key

\* Loads with meter counts 1 and 2 were aggregated into 3 columns, 2 keys.
C1_Witness ==
    /\ AggReturned("load")
    /\ Len(agg_entities) = 2
    /\ agg_entities[1].meter_count = 1 /\ agg_entities[2].meter_count = 2
    /\ Len(AggColumns) = 3
    /\ Len(agg_result.channel_map) = 2

\* C5: in single-sided aggregation, when some load's monitor lacks one of
\* the first meter_count names of V1, V2, V3, the call never returns a table
\* or a channel map and never gets past that load; when it stops at that
\* load it has raised the lookup's error, however many loads came before.
C5_MissingChannelFails ==
    agg_mode = "load" =>
        /\ \A i \in DOMAIN agg_entities :
              LacksChannel(i) =>
                /\ agg_pc # "returned"
                /\ agg_result = <<>>
                /\ agg_i <= i
                /\ (agg_pc = "raised" /\ agg_i = i => agg_exc = "ValueError")
        /\ (agg_pc = "loop" /\ \E i \in DOMAIN agg_entities : LacksChannel(i))
              => ENABLED AggLoadStep

\* The second load, with meter_count 2 and no V2, failed the call after the
\* first load's columns had been built.
C5_Witness ==
    /\ agg_mode = "load" /\ agg_pc = "raised" /\ agg_exc = "ValueError"
    /\ agg_i = 2 /\ agg_data # <<>>
    /\ Len(agg_entities) = 2
    /\ agg_entities[2].meter_count = 2
    /\ <<"V2">> \notin ReportedNames(2, 1)
    /\ ~LacksChannel(1)

\* C6: when the paired-sided aggregation over transformers with pairwise
\* distinct names returns, the table has 6 columns per transformer: one per
\* side of {primary, secondary} and channel of {V1, V2, V3}, named
\* transformer.<name> | side | channel.
C6_PairedSidedColumns ==
    AggReturned("transformer") /\ AggDistinctNames =>
        /\ Len(AggColumns) = 6 * Len(agg_entities)
        /\ Range(AggColumns) =
             {<<"transformer", ".">> \o agg_entities[i].name.element
                \o <<delimiter, side, delimiter, ch>> :
              i \in DOMAIN agg_entities, side \in {"primary", "secondary"},
              ch \in {"V1", "V2", "V3"}}

C6_Witness ==
    /\ AggReturned("transformer") /\ AggDistinctNames
    /\ Len(agg_entities) = 2
    /\ Len(AggColumns) = 12

\* C7: when the single-sided aggregation over loads with pairwise distinct
\* identifiers returns, the columns of each load are V1..V{meter_count} of
\* that load, in that order, and its channel_map entry lists meter_count
\* column indices.
C7_MeterCountColumns ==
    AggReturned("load") /\ AggDistinctNames =>
        \A i \in DOMAIN agg_entities :
            LET load   == agg_entities[i]
                object == <<"load", ".">> \o load.name.element
                mine   == SelectSeq(AggColumns,
                                    LAMBDA c : IsPrefix(object \o <<delimiter>>, c))
            IN /\ mine = [c \in 1..load.meter_count |->
                            object \o <<delimiter>> \o VoltageChannels[c]]
               /\ dict_has(agg_result.channel_map, object)
               /\ Len(dict_get(agg_result.channel_map, object)) = load.meter_count

C7_Witness ==
    /\ AggReturned("load") /\ AggDistinctNames
    /\ Len(agg_entities) = 2
    /\ agg_entities[1].meter_count = 3 /\ agg_entities[2].meter_count = 2
    /\ Len(AggColumns) = 5

(***************************************************************************)
(* Properties of clone and of the factory.                                 *)
(***************************************************************************)
SinglePhases == {"A", "B", "C"}
TwoPhases == {"AB", "AC", "BC"}
ThreePhases == {"ABC"}

\* The pool of the phase class of a phase, and the other two pools.
OwnPool(phase) ==
    IF phase \in SinglePhases THEN Range(single_wye)
    ELSE IF phase \in TwoPhases THEN Range(single_delta)
    ELSE Range(triple)

OtherPools(phase) == AllProfileNames \ OwnPool(phase)

CloneReturns == {pr \in PairIds \X UNION Range(clone_seen) :
                    pr[2] \in clone_seen[pr[1]] /\ pr[2].exc = "none"}

\* C4: whatever the seed, the profile clone gives a load is a member of the
\* pool of the load's phase class (single-phase, two-phase, three-phase)
\* and of neither of the other two pools.
C4_PoolMembership ==
    \A pr \in CloneReturns :
        /\ pr[2].loadshape.profile_name \in OwnPool(clone_pairs[pr[1]].phase)
        /\ pr[2].loadshape.profile_name \notin OtherPools(clone_pairs[pr[1]].phase)

C4_Witness ==
    /\ clone_pairs[1].phase \in TwoPhases
    /\ clone_pairs[2].phase \in ThreePhases
    /\ \E pr \in CloneReturns : pr[1] = 1 /\ pr[2].loadshape.profile_name = "BUSMEDWD_SCENT"
    /\ \E pr \in CloneReturns : pr[1] = 2 /\ pr[2].loadshape.profile_name = "BUSHIDG_SCENT"

\* C8: however the clone calls for a set of (load, seed) pairs are ordered
\* and however often they are repeated, every call for a pair returns the
\* same outcome, with the same values and the same profile name.
C8_ClonePurity ==
    \A p \in PairIds : \A r, q \in clone_seen[p] :
        /\ r.exc = q.exc
        /\ r.exc = "none" =>
            /\ r.loadshape.values = q.loadshape.values
            /\ r.loadshape.profile_name = q.loadshape.profile_name
            /\ r.command_edit = q.command_edit

C8_Witness ==
    /\ clone_calls = MaxCalls
    /\ \A p \in PairIds : \E r \in clone_seen[p] :
            /\ r.exc = "none"
            /\ ~IsConstant(profiles_df[r.loadshape.profile_name])
    /\ clone_pairs[1] # clone_pairs[2]

CountOf(log, what) == Cardinality({i \in DOMAIN log : log[i] = what})

\* C9: when the first clone call starts, one seed per load has been drawn,
\* and from then on the master generator is not drawn from: no draw
\* follows a clone call and the generator stays where the last seed left it.
C9_SeedsBeforeClones ==
    /\ \A i, j \in DOMAIN fac_log : i < j /\ fac_log[i] = "clone" => fac_log[j] # "draw"
    /\ CountOf(fac_log, "clone") > 0 =>
            /\ CountOf(fac_log, "draw") = Len(fac_loads)
            /\ Len(random_states) = Len(fac_loads)
            /\ fac_rng = [seed |-> fac_seed, pos |-> Len(fac_loads)]

C9_Witness ==
    /\ fac_pc = "returned"
    /\ Len(fac_loads) > 1
    /\ CountOf(fac_log, "clone") = Len(fac_loads)

(***************************************************************************)
(* Properties of the session.                                              *)
(***************************************************************************)
\* C3: two runs of the loadshape factory whose generators were created
\* from the same master seed and whose load lists have the same length
\* return the same random_states, element by element.
C3_SeedAllocationDeterministic ==
    \A a, b \in DOMAIN main_history :
        /\ main_history[a].random_state = main_history[b].random_state
        /\ main_history[a].n_loads = main_history[b].n_loads
        => /\ Len(main_history[a].random_states) = Len(main_history[b].random_states)
           /\ \A k \in DOMAIN main_history[a].random_states :
                main_history[a].random_states[k] = main_history[b].random_states[k]

\* The second circuit's factory call has returned; both calls had the same
\* master seed and two loads each, of different phases in the first place.
C3_Witness ==
    /\ Len(main_history) = NumCircuits
    /\ main_pc = "add_commands"
    /\ main_history[1].random_state = main_history[2].random_state
    /\ main_history[1].n_loads = 2 /\ main_history[2].n_loads = 2
    /\ main_history[1].random_states[1] # main_history[1].random_states[2]
    /\ main_locals.labels_df[1].phase_name # main_locals.loads[1].phase

\* C10: when a circuit's processing fails, the circuits after it in
\* parameters_list are still processed and their five artifacts written.
C10_FailureIsolation ==
    main_pc = "raised" =>
        \A c \in (main_i + 1)..Len(parameters_list) :
            \A a \in Range(Artifacts) : <<parameters_list[c].circuit_name, a>> \in files

Datasets == {"loadshapes", "data_df", "loadshape_df", "labels_df", "sub_data_df"}

FilesOf(c) == {f \in files : f[1] = parameters_list[c].circuit_name}

\* C11: an artifact of a circuit is written only when all of the circuit's
\* datasets have been built, and when a step of the circuit has failed none
\* of the circuit's artifacts has been written.
C11_NoPartialWrites ==
    main_pc # "off" =>
        /\ FilesOf(main_i) # {} => Datasets \subseteq main_built
        /\ main_pc = "raised" => FilesOf(main_i) = {}

\* The last build step of the second circuit failed, after the first
\* circuit was written in full.
C11_Witness ==
    /\ main_pc = "raised"
    /\ main_i = 2
    /\ main_built = Datasets \ {"sub_data_df"}
    /\ Cardinality(FilesOf(1)) = Len(Artifacts)
    /\ FilesOf(2) = {}

\* C12: a constant profile gives a loadshape whose samples all equal one
\* value (a number), and where every profile of the table is constant no
\* clone call raises.
C12_ConstantSeries ==
    \A p \in PairIds : \A r \in clone_seen[p] :
        /\ profiles_df = ConstantTable => r.exc = "none"
        /\ r.exc = "none" /\ IsConstant(profiles_df[r.loadshape.profile_name]) =>
            /\ Len(r.loadshape.values) = Len(profiles_df[r.loadshape.profile_name])
            /\ \A i \in DOMAIN r.loadshape.values :
                /\ ~IsNaN(r.loadshape.values[i])
                /\ r.loadshape.values[i] = r.loadshape.values[1]

C12_Witness ==
    /\ profiles_df = ConstantTable
    /\ \A p \in PairIds : \E r \in clone_seen[p] :
            /\ r.exc = "none"
            /\ r.loadshape.values = [i \in 1..4 |-> Frac(1, 1)]
    /\ clone_pairs[1].phase = "A" /\ clone_pairs[2].phase = "ABC"

\* Two series hold the same numbers, position by position.
SameNumbers(xs, ys) ==
    /\ Len(xs) = Len(ys)
    /\ \A i \in DOMAIN xs :
        /\ ~IsNaN(xs[i]) /\ ~IsNaN(ys[i])
        /\ xs[i].num * ys[i].den = ys[i].num * xs[i].den

\* C13: a LoadShape built from a series of length N with n_interpolate = N
\* scales the original series, and stores what it stores without
\* n_interpolate.
C13_ResampleIdentity ==
    shape_pc = "done" /\ shape_n = <<Len(shape_values)>> =>
        /\ SameNumbers(shape_pre, values_copy(shape_values))
        /\ SameNumbers(shape_self, ShapeScaled(values_copy(shape_values)).values)

\* C14: for N loads the factory returns N seeds and N loadshapes, the k-th
\* loadshape is the clone for the k-th load with the k-th seed, and every
\* seed drawn is at least 0 and less than 2^31 - 1.
C14_SeedPerLoad ==
    /\ \A k \in DOMAIN random_states :
            0 <= random_states[k] /\ random_states[k] <= 2147483646
    /\ fac_pc = "returned" =>
        /\ fac_result.random_states = random_states
        /\ Len(fac_result.random_states) = Len(fac_loads)
        /\ Len(fac_result.loadshapes) = Len(fac_loads)
        /\ \A k \in DOMAIN fac_loads :
            fac_result.loadshapes[k] =
                clone(profiles_df, fac_loads[k], fac_result.random_states[k],
                      norm_random_state).loadshape

\* Two loads of different phases were given seeds; the first seed came from
\* the generator's largest word.
C14_Witness ==
    /\ fac_pc = "returned"
    /\ Len(fac_loads) = 2
    /\ StreamWord(default_rng(fac_seed)) = Int32Max
    /\ fac_result.random_states[1] = 0
    /\ fac_result.random_states[2] > 0
    /\ fac_loads[1].phase # fac_loads[2].phase

Pools == {phase_profile_mapping(phase) : phase \in Phases}

\* C15: the seven phases map to three pools, by phase class; the pools are
\* pairwise disjoint and none repeats an identifier; the phase of every
\* load clone is called with has its pool.
C15_PhasePools ==
    /\ Cardinality(Phases) = 7
    /\ \A phase \in SinglePhases : phase_profile_mapping(phase) = single_wye
    /\ \A phase \in TwoPhases : phase_profile_mapping(phase) = single_delta
    /\ \A phase \in ThreePhases : phase_profile_mapping(phase) = triple
    /\ Phases = SinglePhases \cup TwoPhases \cup ThreePhases
    /\ Cardinality(Pools) = 3
    /\ \A a, b \in Pools : a # b => Range(a) \cap Range(b) = {}
    /\ \A a \in Pools : Cardinality(Range(a)) = Len(a)
    /\ \A p \in DOMAIN clone_pairs : phase_profile_mapping(clone_pairs[p].phase) \in Pools

C15_Witness ==
    /\ clone_pairs[1].phase \in SinglePhases
    /\ clone_pairs[2].phase \in TwoPhases
    /\ \A p \in PairIds : \E r \in clone_seen[p] : r.exc = "none"

(***************************************************************************)
(* Properties of one clone call.                                           *)
(***************************************************************************)
ProtoPhase == proto_kwargs.load.phase

ProtoUnmapped == ProtoPhase \notin DOMAIN proto_self.phase_profile_mapping

ProtoEmptyPool ==
    /\ ProtoPhase \in DOMAIN proto_self.phase_profile_mapping
    /\ proto_self.phase_profile_mapping[ProtoPhase] = <<>>

\* C16: when the load's phase has no entry in the mapping, or its pool is
\* empty, clone raises and returns no loadshape.
C16_NoPoolFails ==
    proto_pc \in {"returned", "raised"} /\ (ProtoUnmapped \/ ProtoEmptyPool) =>
        /\ proto_pc = "raised"
        /\ proto_result.exc \in {"KeyError", "ValueError"}
        /\ proto_result.loadshape = <<>>

C16_Witness ==
    /\ proto_pc = "raised"
    /\ ProtoEmptyPool
    /\ proto_result.exc = "ValueError"
    /\ profiles_df = FullTable

\* The profile name clone selects, where the phase has a pool that is not
\* empty.
ProtoPool == proto_self.phase_profile_mapping[ProtoPhase]

ProtoSelected ==
    ProtoPool[(StreamWord(default_rng(proto_kwargs.random_state)) % Len(ProtoPool)) + 1]

ProtoSelects == ~ProtoUnmapped /\ ~ProtoEmptyPool

\* C17: when the selected profile name is not a column of the table, clone
\* raises at the lookup and returns no loadshape; a loadshape it returns
\* carries the selected name, which is a column of the table.
C17_ExactKey ==
    proto_pc \in {"returned", "raised"} /\ ProtoSelects =>
        /\ ProtoSelected \notin DOMAIN profiles_df =>
            /\ proto_pc = "raised"
            /\ proto_result.exc = "KeyError"
            /\ proto_result.loadshape = <<>>
        /\ proto_pc = "returned" =>
            /\ proto_result.loadshape.profile_name = ProtoSelected
            /\ ProtoSelected \in DOMAIN profiles_df

C17_Witness ==
    /\ proto_pc = "raised"
    /\ ProtoSelects
    /\ ProtoSelected \notin DOMAIN profiles_df
    /\ proto_result.exc = "KeyError"

\* C18: clone raises, and returns no loadshape, when the selected profile
\* has no sample or one sample, with or without n_interpolate.
C18_ShortProfileRejected ==
    /\ proto_pc \in {"returned", "raised"}
    /\ ProtoSelects
    /\ ProtoSelected \in DOMAIN profiles_df
    /\ Len(profiles_df[ProtoSelected]) <= 1
    => proto_pc = "raised" /\ proto_result.loadshape = <<>>

(***************************************************************************)
(* Properties of the constructor's resampling.                             *)
(***************************************************************************)
ShapeExpandsOrCompresses ==
    /\ shape_pc = "done"
    /\ shape_n # <<>>
    /\ shape_n[1] # Len(shape_values)

C20_MeterCount ==
    \A i \in DOMAIN fac_loads :
        /\ fac_loads[i].phase \in {"A", "B", "C"} => fac_loads[i].meter_count = 1
        /\ fac_loads[i].phase \in {"AB", "AC", "BC"} => fac_loads[i].meter_count = 2
        /\ fac_loads[i].phase = "ABC" => fac_loads[i].meter_count = 3
        /\ fac_loads[i].meter_count \in {1, 2, 3}
        /\ \A j \in DOMAIN fac_loads :
                fac_loads[i].phase = fac_loads[j].phase
                    => fac_loads[i].meter_count = fac_loads[j].meter_count

\* A line-to-line load and a three-phase load went through the factory.
C20_Witness ==
    /\ fac_pc = "returned"
    /\ Len(fac_loads) = 2
    /\ fac_loads[1].phase = "AB" /\ fac_loads[1].meter_count = 2
    /\ fac_loads[2].phase = "ABC" /\ fac_loads[2].meter_count = 3

(***************************************************************************)
(* Further properties of the aggregator.                                   *)
(***************************************************************************)
\* The column name the aggregation gives channel c of load i.
ColumnOf(i, c) ==
    <<"load", ".">> \o agg_entities[i].name.element \o <<delimiter>> \o VoltageChannels[c]

\* The place of channel c among what load i's monitor reports, the hours
\* being at place 0.
ReportedAt(i, c) ==
    CHOOSE k \in DOMAIN engine_header[agg_monitors[i][1].name.element] :
        /\ str_strip_spaces(engine_header[agg_monitors[i][1].name.element][k])
                = VoltageChannels[c]
        /\ \A j \in 1..(k - 1) :
              str_strip_spaces(engine_header[agg_monitors[i][1].name.element][j])
                # VoltageChannels[c]

\* C21: when the single-sided aggregation over loads with pairwise distinct
\* identifiers returns, the columns of an earlier load all come before the
\* columns of a later load, the columns of one load are in the order V1, V2,
\* V3, and the rows of a column are the samples of that load's monitor for
\* that channel, in timestep order.
C21_ColumnOrder ==
    AggReturned("load") /\ AggDistinctNames =>
        /\ \A p \in DOMAIN AggColumns :
              \E i \in DOMAIN agg_entities :
                \E c \in 1..agg_entities[i].meter_count : AggColumns[p] = ColumnOf(i, c)
        /\ \A p, q \in DOMAIN AggColumns :
              \A i, j \in DOMAIN agg_entities :
                \A c, d \in DOMAIN VoltageChannels :
                    /\ AggColumns[p] = ColumnOf(i, c)
                    /\ AggColumns[q] = ColumnOf(j, d)
                    /\ i < j \/ (i = j /\ c < d)
                    => p < q
        /\ \A p \in DOMAIN AggColumns :
              \A i \in DOMAIN agg_entities :
                \A c \in 1..agg_entities[i].meter_count :
                    AggColumns[p] = ColumnOf(i, c) =>
                        /\ Len(agg_result.data_df[p].value) = SampleCount
                        /\ \A t \in 1..SampleCount :
                              agg_result.data_df[p].value[t]
                                = <<agg_monitors[i][1].name.element, ReportedAt(i, c), t>>

\* A two-channel load before a three-channel load: the third column is the
\* first of the second load.
C21_Witness ==
    /\ AggReturned("load") /\ AggDistinctNames
    /\ Len(agg_entities) = 2
    /\ agg_entities[1].meter_count = 2 /\ agg_entities[2].meter_count = 3
    /\ Len(AggColumns) = 5
    /\ AggColumns[2] = ColumnOf(1, 2)
    /\ AggColumns[3] = ColumnOf(2, 1)
    /\ agg_result.data_df[3].value[SampleCount][3] = SampleCount

\* The entity a column name belongs to: what precedes the delimiter.
EntityOf(column) == str_split(column, delimiter)[1]

\* The index of the first column of the table that belongs to `entity`.
FirstColumnOf(entity) ==
    CHOOSE c \in 0..(Len(AggColumns) - 1) :
        /\ EntityOf(AggColumns[c + 1]) = entity
        /\ \A b \in 0..(c - 1) : EntityOf(AggColumns[b + 1]) # entity

\* C22: when the single-sided aggregation returns, the keys of the
\* channel_map are in the order in which their entities first occur among
\* the columns, and every index list is strictly ascending.
C22_ChannelMapOrder ==
    AggReturned("load") =>
        LET cm == agg_result.channel_map
        IN /\ \A k \in DOMAIN cm :
                /\ cm[k].value # <<>>
                /\ cm[k].value[1] = FirstColumnOf(cm[k].key)
                /\ \A a, b \in DOMAIN cm[k].value :
                      a < b => cm[k].value[a] < cm[k].value[b]
           /\ \A k1, k2 \in DOMAIN cm :
                k1 < k2 => FirstColumnOf(cm[k1].key) < FirstColumnOf(cm[k2].key)

\* Two loads of three and two channels: the second key lists columns 3, 4.
C22_Witness ==
    /\ AggReturned("load")
    /\ Len(agg_result.channel_map) = 2
    /\ agg_result.channel_map[1].value = <<0, 1, 2>>
    /\ agg_result.channel_map[2].value = <<3, 4>>

\* A column name that does not split into an entity and a channel.
Malformed(column) == Len(str_split(column, delimiter)) # 2

\* C23: in the single-sided aggregation, once the table holds a column name
\* that does not split on the delimiter into exactly two pieces, the call
\* never returns: when the loop over the loads is over it raises the
\* unpacking's error.  A channel_map that is returned has no key but the
\* full object names of the loads.
C23_MalformedColumnFails ==
    agg_mode = "load" =>
        /\ (\E k \in DOMAIN agg_data : Malformed(agg_data[k].key)) =>
              /\ agg_pc \in {"loop", "raised"}
              /\ agg_result = <<>>
              /\ agg_pc = "raised" => agg_exc = "ValueError"
              /\ agg_pc = "loop" /\ agg_i > Len(agg_entities) =>
                    MakeChannelMap(dict_keys(agg_data)).exc = "ValueError"
        /\ agg_pc = "returned" =>
              \A k \in DOMAIN agg_result.channel_map :
                \E i \in DOMAIN agg_entities :
                    agg_result.channel_map[k].key = NameObject(agg_entities[i].name)

\* The second load's identifier holds the delimiter: all columns were
\* built, and building the channel_map failed.
C23_Witness ==
    /\ agg_mode = "load" /\ agg_pc = "raised" /\ agg_exc = "ValueError"
    /\ Len(agg_entities) = 2 /\ agg_i = 3
    /\ agg_entities[1].name.element = <<"a">>
    /\ agg_entities[2].name.element = <<"a", delimiter, "b">>
    /\ \E k \in DOMAIN agg_data : Malformed(agg_data[k].key)

(***************************************************************************)
(* Properties of the label table.                                          *)
(***************************************************************************)
\* The number of seeds differs from the number of loads, or no seeds were
\* passed.
LabSeedMismatch ==
    \/ lab_args.random_states = <<>>
    \/ Len(lab_args.random_states[1]) # Len(lab_args.loads)

\* C24: when the number of seeds differs from the number of loads, or
\* random_states is omitted, make_load_labels raises and returns no table.
C24_SeedMismatchFails ==
    lab_pc \in {"returned", "raised"} /\ LabSeedMismatch =>
        lab_pc = "raised" /\ lab_result.labels_df = <<>>

(***************************************************************************)
(* Properties of the Load constructor.                                     *)
(***************************************************************************)
chr_upper(c) ==
    CASE c = "w" -> "W" [] c = "y" -> "Y" [] c = "e" -> "E" [] c = "l" -> "L"
      [] c = "n" -> "N" [] c = "d" -> "D" [] c = "t" -> "T" [] c = "a" -> "A"
      [] OTHER -> c

\* The conn string is one of wye, y, ln, delta, d, ll, in any case.
ValidConn(conn) ==
    \E v \in {<<"w", "y", "e">>, <<"y">>, <<"l", "n">>, <<"d", "e", "l", "t", "a">>,
              <<"d">>, <<"l", "l">>} :
        /\ Len(conn) = Len(v)
        /\ \A i \in DOMAIN v : conn[i] \in {v[i], chr_upper(v[i])}

\* The terminals of bus1: the tokens that follow a ".".
Bus1Terminals(bus1) == {bus1[i + 1] : i \in {j \in 1..(Len(bus1) - 1) : bus1[j] = "."}}

\* bus1 names one of the terminal sets {1}, {2}, {3}, {1,2}, {1,3}, {2,3}.
ValidTerminals(bus1) ==
    /\ bus1[Len(bus1)] # "."
    /\ Bus1Terminals(bus1) \in
            {{"1"}, {"2"}, {"3"}, {"1", "2"}, {"1", "3"}, {"2", "3"}}

LoadEncodingInvalid ==
    \/ ~ValidConn(load_engine.conn)
    \/ load_engine.phases # 3 /\ ~ValidTerminals(load_engine.bus1)

\* C25: a Load whose conn string or whose terminal set (when it is not a
\* three-phase load) is invalid is never constructed: the constructor
\* raises; a Load that exists has a connection, a phase and a meter_count.
C25_InvalidEncodingRejected ==
    load_pc \in {"constructed", "raised"} =>
        /\ LoadEncodingInvalid =>
              /\ load_pc = "raised"
              /\ load_self.object = <<>>
              /\ load_self.exc \in {"KeyError", "ValueError"}
        /\ load_pc = "constructed" =>
              /\ load_self.object.connection \in {"WYE", "DELTA"}
              /\ load_self.object.phase \in Phases
              /\ load_self.object.meter_count \in {1, 2, 3}

\* A valid connection with terminals 1 and 0 on a one-phase load: the lookup
\* of the terminal set raised.
C25_Witness ==
    /\ load_pc = "raised"
    /\ load_engine = [conn |-> <<"W", "Y", "E">>, phases |-> 1,
                      bus1 |-> <<"bus", ".", "1", ".", "0">>]
    /\ load_self.exc = "ValueError"

(***************************************************************************)
(* Further properties of the session.                                      *)
(***************************************************************************)
\* The place of a command in the order the pipeline sends them in.
CommandRank(command) ==
    CASE command.verb = "new" -> 1
      [] command.verb = "edit" -> 2
      [] command.verb = "set" -> 3
      [] command.verb = "solve" -> 4

\* The loadshape an edit-command binds its load to: what follows the "=".
EditTarget(command) ==
    SubSeq(command.text, PositionIn(command.text, "=") + 1, Len(command.text))

CommandsWith(verb) == {p \in DOMAIN dss.commands : dss.commands[p].verb = verb}

\* C26: in every circuit, the engine is sent no command before the seeds
\* and loadshapes exist; the commands go out as add-commands, then
\* edit-commands, then set and solve; an edit-command names a loadshape
\* that an earlier command added; once solve is sent all add- and
\* edit-commands have been; and no monitor is read before solve.
C26_PipelineOrder ==
    main_pc # "off" =>
        /\ dss.commands # <<>> => "loadshapes" \in main_built
        /\ \A p, q \in DOMAIN dss.commands :
              p < q => CommandRank(dss.commands[p]) <= CommandRank(dss.commands[q])
        /\ \A q \in CommandsWith("edit") :
              \E p \in 1..(q - 1) :
                /\ dss.commands[p].verb = "new"
                /\ dss.commands[p].object
                        = <<"loadshape", ".">> \o EditTarget(dss.commands[q])
        /\ dss.solved =>
              /\ CommandsWith("solve") # {}
              /\ Cardinality(CommandsWith("new"))
                    = Len(main_locals.load_monitors)
                        + Len(main_locals.transformer_monitors_primary)
                        + Len(main_locals.transformer_monitors_secondary)
                        + Len(main_locals.loadshapes)
              /\ Cardinality(CommandsWith("edit")) = Len(main_locals.loads)
        /\ dss.active # <<>> => dss.solved
        /\ main_built \cap {"data_df", "loadshape_df", "labels_df", "sub_data_df"} # {}
              => dss.solved

\* In the second circuit, with two loads, the monitors have been read after
\* the solve.
C26_Witness ==
    /\ main_i = 2
    /\ dss.solved /\ dss.active # <<>>
    /\ Cardinality(CommandsWith("edit")) = 2
    /\ "data_df" \in main_built

\* C27: once the label table of a circuit is built, there is one loadshape,
\* one seed, one edit-command and one label row per load, in load order;
\* row k records load k's name, meter_count and phase, the k-th seed and the
\* profile clone selects for load k with that seed; loadshape k is the one
\* made for load k from that profile, and edit-command k binds load k to
\* loadshape k.
C27_OneLoadshapePerLoad ==
    main_pc # "off" /\ "labels_df" \in main_built =>
        LET L == main_locals
            n == Len(L.loads)
            selected(k) ==
                clone(profiles_df, L.loads[k], L.random_states[k], norm_random_state)
                    .loadshape.profile_name
        IN /\ Len(L.loadshapes) = n
           /\ Len(L.random_states) = n
           /\ Len(L.edit_commands) = n
           /\ Len(L.labels_df) = n
           /\ \A k \in 1..n :
                /\ L.labels_df[k].load_name = <<"load", ".">> \o L.loads[k].name.element
                /\ L.labels_df[k].meter_count = L.loads[k].meter_count
                /\ L.labels_df[k].phase_name = L.loads[k].phase
                /\ L.labels_df[k].random_state = L.random_states[k]
                /\ L.labels_df[k].profile_name = selected(k)
                /\ L.loadshapes[k].profile_name = selected(k)
                /\ L.loadshapes[k].name.element
                        = <<"load_">> \o L.loads[k].name.element \o <<"_", selected(k)>>
                /\ L.labels_df[k].loadshape_name
                        = <<"loadshape", ".">> \o L.loadshapes[k].name.element
                /\ L.edit_commands[k]
                        = <<"load", ".">> \o L.loads[k].name.element
                            \o <<".", "yearly", "=">> \o L.loadshapes[k].name.element
                /\ \A j \in 1..n :
                      j # k => L.edit_commands[k] # L.edit_commands[j]
                                /\ L.loadshapes[k].name # L.loadshapes[j].name

\* Two loads of different phases got different seeds and different
\* profiles, each on its own row.
C27_Witness ==
    /\ main_pc # "off" /\ "labels_df" \in main_built
    /\ Len(main_locals.labels_df) = 2
    /\ main_locals.loads[1].phase # main_locals.loads[2].phase
    /\ main_locals.labels_df[1].random_state # main_locals.labels_df[2].random_state
    /\ main_locals.labels_df[1].profile_name # main_locals.labels_df[2].profile_name

C29_OwnMonitorData ==
    agg_mode # "off" =>
        /\ \A k \in DOMAIN agg_md :
              LET monitor == agg_md[k].monitor
                  data_md == agg_md[k].data_md
                  header  == engine_header[monitor.name.element]
              IN /\ data_md.monitor_name = monitor.name
                 /\ Len(data_md.channel_names) = Len(header) + 1
                 /\ data_md.channel_names[1] = <<"hours">>
                 /\ \A c \in DOMAIN header :
                       data_md.channel_names[c + 1] = str_strip_spaces(header[c])
                 /\ DOMAIN data_md.data = 0..Len(header)
                 /\ \A c \in 0..Len(header) :
                       /\ Len(data_md.data[c]) = SampleCount
                       /\ \A t \in 1..SampleCount :
                             data_md.data[c][t] = <<monitor.name.element, c, t>>
        /\ agg_md # <<>> =>
              active_monitor = agg_md[Len(agg_md)].monitor.name.element

\* The second transformer's two monitors, which report different channels,
\* were read after the first's two: each MonitorData is its own monitor's.
C29_Witness ==
    /\ agg_mode = "transformer"
    /\ agg_i = 2 /\ agg_pc = "raised"
    /\ Len(agg_md) = 2
    /\ agg_md[1].monitor # agg_md[2].monitor
    /\ agg_md[1].monitor = agg_monitors[2][1]
    /\ agg_md[2].monitor = agg_monitors[2][2]
    /\ engine_header[agg_monitors[2][1].name.element]
            # engine_header[agg_monitors[2][2].name.element]
    /\ agg_md[1].data_md.data[1][1][1] = agg_monitors[2][1].name.element

(***************************************************************************)
(* Properties of the aggregation of loads that share an identifier.        *)
(***************************************************************************)
\* Nothing else is wrong with the input: every monitor reports the channels
\* of its load, and no identifier holds the delimiter.
AggInputSound ==
    /\ \A i \in DOMAIN agg_entities : ~LacksChannel(i)
    /\ \A i \in DOMAIN agg_entities : delimiter \notin Range(agg_entities[i].name.element)

\* The last load that has load i's identifier and a channel c.
LastWith(i, c) ==
    CHOOSE j \in DOMAIN agg_entities :
        /\ agg_entities[j].name.element = agg_entities[i].name.element
        /\ agg_entities[j].meter_count >= c
        /\ \A k \in DOMAIN agg_entities :
              agg_entities[k].name.element = agg_entities[i].name.element
                /\ agg_entities[k].meter_count >= c
              => k <= j

\* C30: when two loads of the input share an identifier (and nothing else
\* is wrong with the input), the single-sided aggregation raises nothing;
\* what it returns has one column per identifier and channel, holding the
\* samples of the last load of that identifier that has the channel, so
\* fewer columns than the loads have meters, and one channel_map key per
\* identifier.
C30_SharedIdentifierOverwrites ==
    agg_mode = "load" /\ ~AggDistinctNames /\ AggInputSound =>
        /\ agg_pc # "raised"
        /\ agg_pc = "returned" =>
              /\ Len(AggColumns)
                    < Sum([i \in DOMAIN agg_entities |-> agg_entities[i].meter_count])
              /\ \A p, q \in DOMAIN AggColumns : p # q => AggColumns[p] # AggColumns[q]
              /\ \A i \in DOMAIN agg_entities :
                    \A c \in 1..agg_entities[i].meter_count :
                        \E p \in DOMAIN AggColumns :
                            /\ AggColumns[p] = ColumnOf(i, c)
                            /\ \A t \in 1..SampleCount :
                                  agg_result.data_df[p].value[t]
                                    = <<agg_monitors[LastWith(i, c)][1].name.element,
                                        ReportedAt(LastWith(i, c), c), t>>
              /\ \A i \in DOMAIN agg_entities :
                    Cardinality({k \in DOMAIN agg_result.channel_map :
                                    agg_result.channel_map[k].key
                                        = NameObject(agg_entities[i].name)}) = 1
              /\ Len(agg_result.channel_map)
                    = Cardinality({agg_entities[i].name.element : i \in DOMAIN agg_entities})

\* A three-channel load and then a one-channel load of the same identifier:
\* three columns for four meters, the first from the second load's monitor.
C30_Witness ==
    /\ AggReturned("load")
    /\ Len(agg_entities) = 2
    /\ agg_entities[1].name.element = agg_entities[2].name.element
    /\ agg_entities[1].meter_count = 3 /\ agg_entities[2].meter_count = 1
    /\ Len(AggColumns) = 3
    /\ Len(agg_result.channel_map) = 1
    /\ agg_result.data_df[1].value[1][1] = agg_monitors[2][1].name.element
    /\ agg_result.data_df[2].value[1][1] = agg_monitors[1][1].name.element

====
